---------------------------- MODULE Spec2Model ----------------------------
(***************************************************************************)
(* Skill normalisation, fuzzy matching, weighted scoring and highlight     *)
(* location of backend/api/utils.py and backend/api/views.py.              *)
(*                                                                         *)
(* Strings are TLA+ strings over ASCII; Python's 0-based half-open         *)
(* indices are kept (a[i:j] is Slice(a, i, j)).  Floating-point values     *)
(* are modelled by exact rationals <<numerator, denominator>>; weights     *)
(* are kept in tenths (1.5 is 15) and percentages in hundredths of a       *)
(* percent (66.67 is 6667).                                                *)
(***************************************************************************)
EXTENDS Integers, Sequences, FiniteSets, TLC

VARIABLES
    pc,     \* "called" while the operation runs, "returned" once it has returned
    op,     \* the operation that was invoked
    args,   \* its arguments, a record
    ret,    \* its return value (None while pc = "called")
    db      \* the stored records: the rows of the three tables of models.py

vars == <<pc, op, args, ret, db>>

\* Python's None; an optional string is None or the one-element tuple <<s>>.
None == <<>>
Some(s) == <<s>>

(***************************************************************************)
(* Taxonomy tables (module-level data of utils.py).                        *)
(***************************************************************************)
SKILL_SYNONYMS ==
    ("js" :> "javascript") @@ ("es6" :> "javascript") @@ ("es2015" :> "javascript") @@
    ("ecmascript" :> "javascript") @@ ("ts" :> "typescript") @@
    ("react.js" :> "react") @@ ("reactjs" :> "react") @@ ("react js" :> "react") @@
    ("vue.js" :> "vuejs") @@ ("vue js" :> "vuejs") @@ ("angular.js" :> "angular") @@
    ("angularjs" :> "angular") @@ ("angular js" :> "angular") @@
    ("node.js" :> "nodejs") @@ ("node js" :> "nodejs") @@ ("node" :> "nodejs") @@
    ("next.js" :> "nextjs") @@ ("next js" :> "nextjs") @@ ("python3" :> "python") @@
    ("python 3" :> "python") @@ ("py" :> "python") @@ ("postgres" :> "postgresql") @@
    ("psql" :> "postgresql") @@ ("pg" :> "postgresql") @@ ("mongo" :> "mongodb") @@
    ("k8s" :> "kubernetes") @@ ("kube" :> "kubernetes") @@
    ("amazon web services" :> "aws") @@ ("amazon aws" :> "aws") @@
    ("google cloud platform" :> "gcp") @@ ("google cloud" :> "gcp") @@
    ("ml" :> "machine learning") @@ ("machine-learning" :> "machine learning") @@
    ("artificial intelligence" :> "ai") @@ ("dl" :> "deep learning") @@
    ("deep-learning" :> "deep learning") @@ ("natural language processing" :> "nlp") @@
    ("cpp" :> "c++") @@ ("cplusplus" :> "c++") @@ ("csharp" :> "c#") @@
    ("c sharp" :> "c#") @@ ("dotnet" :> ".net") @@ ("dot net" :> ".net") @@
    ("ci/cd" :> "cicd") @@ ("ci-cd" :> "cicd") @@
    ("continuous integration" :> "cicd") @@ ("continuous deployment" :> "cicd") @@
    ("rest api" :> "restful") @@ ("rest apis" :> "restful") @@
    ("restful api" :> "restful") @@ ("unit test" :> "unit testing") @@
    ("unit tests" :> "unit testing") @@ ("unittest" :> "unit testing") @@
    ("agile methodology" :> "agile") @@ ("agile development" :> "agile") @@
    ("object oriented programming" :> "oop") @@
    ("object-oriented programming" :> "oop") @@ ("object oriented" :> "oop") @@
    ("data structure" :> "data structures") @@ ("dsa" :> "data structures") @@
    ("scikit learn" :> "sklearn") @@ ("scikit-learn" :> "sklearn") @@
    ("tensor flow" :> "tensorflow") @@ ("tensor-flow" :> "tensorflow") @@
    ("py torch" :> "pytorch") @@ ("fast api" :> "fastapi") @@
    ("fast-api" :> "fastapi") @@ ("springboot" :> "spring boot") @@
    ("spring-boot" :> "spring boot") @@ ("rails" :> "ruby on rails") @@
    ("ror" :> "ruby on rails") @@ ("react-native" :> "react native") @@
    ("reactnative" :> "react native") @@ ("powerbi" :> "power bi") @@
    ("power-bi" :> "power bi") @@ ("github-actions" :> "github actions") @@
    ("gh actions" :> "github actions") @@ ("sr" :> "senior") @@ ("sr." :> "senior") @@
    ("jr" :> "junior") @@ ("jr." :> "junior")

\* Weights in tenths; a skill absent from the table has weight 1.0 (10).
SKILL_WEIGHTS ==
    ("kubernetes" :> 15) @@ ("docker" :> 13) @@ ("aws" :> 14) @@ ("gcp" :> 14) @@
    ("azure" :> 14) @@ ("terraform" :> 15) @@ ("machine learning" :> 15) @@
    ("deep learning" :> 16) @@ ("pytorch" :> 15) @@ ("tensorflow" :> 15) @@
    ("nlp" :> 15) @@ ("computer vision" :> 16) @@ ("microservices" :> 13) @@
    ("system design" :> 14) @@ ("spark" :> 14) @@ ("kafka" :> 14) @@
    ("elasticsearch" :> 13) @@ ("graphql" :> 13) @@ ("rust" :> 14) @@ ("go" :> 13) @@
    ("scala" :> 13) @@ ("git" :> 8) @@ ("html" :> 7) @@ ("css" :> 7) @@ ("sql" :> 9) @@
    ("agile" :> 8) @@ ("jira" :> 7) @@ ("slack" :> 5) @@ ("excel" :> 6)

TECH_SKILLS == <<
    "python", "java", "javascript", "typescript", "c++", "c#", "ruby", "go", "golang",
    "rust", "php", "swift", "kotlin", "scala", "r", "matlab", "perl", "bash", "shell",
    "powershell", "lua", "dart", "objective-c", "groovy", "cobol", "fortran", "haskell",
    "django", "flask", "fastapi", "react", "reactjs", "react.js", "angular",
    "angularjs", "vue", "vuejs", "vue.js", "next.js", "nextjs", "nuxt", "nuxtjs",
    "express", "expressjs", "node", "nodejs", "node.js", "spring", "spring boot",
    "springboot", "laravel", "rails", "ruby on rails", "asp.net", ".net", "dotnet",
    "symfony", "codeigniter", "gatsby", "svelte", "ember", "backbone", "jquery",
    "bootstrap", "tailwind", "tailwindcss", "material-ui", "chakra", "ant design",
    "redux", "mobx", "graphql", "rest", "restful", "sql", "mysql", "postgresql",
    "postgres", "mongodb", "redis", "elasticsearch", "cassandra", "oracle", "sqlite",
    "mariadb", "dynamodb", "firebase", "firestore", "couchdb", "neo4j", "memcached",
    "mssql", "sql server", "aurora", "cockroachdb", "aws", "amazon web services",
    "azure", "gcp", "google cloud", "docker", "kubernetes", "k8s", "jenkins",
    "terraform", "ansible", "puppet", "chef", "circleci", "travis ci", "github actions",
    "gitlab ci", "bitbucket", "heroku", "digitalocean", "vercel", "netlify",
    "cloudflare", "nginx", "apache", "linux", "ubuntu", "centos", "redhat",
    "windows server", "vmware", "vagrant", "prometheus", "grafana", "datadog", "splunk",
    "elk", "logstash", "kibana", "cloudformation", "pulumi", "helm", "istio", "argocd",
    "machine learning", "deep learning", "artificial intelligence", "ai", "ml",
    "tensorflow", "pytorch", "keras", "scikit-learn", "sklearn", "pandas", "numpy",
    "scipy", "matplotlib", "seaborn", "plotly", "jupyter", "anaconda", "opencv", "nlp",
    "natural language processing", "computer vision", "neural networks", "transformers",
    "hugging face", "bert", "gpt", "llm", "langchain", "openai", "spacy", "nltk",
    "xgboost", "lightgbm", "catboost", "spark", "pyspark", "hadoop", "hive", "kafka",
    "airflow", "mlflow", "kubeflow", "sagemaker", "databricks", "android", "ios",
    "react native", "flutter", "xamarin", "ionic", "cordova", "swift ui", "swiftui",
    "jetpack compose", "mobile development", "git", "github", "gitlab", "bitbucket",
    "svn", "mercurial", "jira", "confluence", "trello", "asana", "slack", "teams",
    "agile", "scrum", "kanban", "ci/cd", "cicd", "unit testing", "integration testing",
    "selenium", "cypress", "jest", "mocha", "pytest", "unittest", "testng", "junit",
    "postman", "swagger", "api testing", "load testing", "performance testing", "qa",
    "quality assurance", "tdd", "bdd", "cybersecurity", "penetration testing", "owasp",
    "ssl", "tls", "oauth", "jwt", "encryption", "authentication", "authorization",
    "sso", "ldap", "active directory", "microservices", "api", "websocket", "soap",
    "grpc", "rabbitmq", "celery", "asyncio", "multithreading", "concurrency",
    "design patterns", "oop", "functional programming", "data structures", "algorithms",
    "system design", "html", "css", "sass", "scss", "less", "webpack", "babel", "vite",
    "parcel", "npm", "yarn", "pip", "maven", "gradle", "make", "cmake", "json", "xml",
    "yaml", "csv", "excel", "power bi", "tableau", "looker", "etl", "data warehouse",
    "snowflake", "redshift", "bigquery", "dbt", "fivetran", "stitch" >>


(***************************************************************************)
(* Python string primitives.                                               *)
(***************************************************************************)
UPPERCASE == "ABCDEFGHIJKLMNOPQRSTUVWXYZ"
LOWERCASE == "abcdefghijklmnopqrstuvwxyz"
DIGITS    == "0123456789"

\* The characters of s, as a set of one-character strings.
Chars(s) == {SubSeq(s, i, i) : i \in 1..Len(s)}

\* s[i], 0-based.
At(s, i) == SubSeq(s, i + 1, i + 1)

\* s[i:j], 0-based and half-open.
Slice(s, i, j) == SubSeq(s, i + 1, j)

IsSpace(c) == c \in {" ", "\t", "\n", "\r"}

\* The characters matched by \w of the re module (ASCII letters, digits, underscore).
WordChars == Chars(UPPERCASE) \cup Chars(LOWERCASE) \cup Chars(DIGITS) \cup {"_"}

IsWord(c) == c \in WordChars

ToLower == [c \in Chars(UPPERCASE) |->
               At(LOWERCASE, (CHOOSE i \in 0..25 : At(UPPERCASE, i) = c))]

ToUpper == [c \in Chars(LOWERCASE) |->
               At(UPPERCASE, (CHOOSE i \in 0..25 : At(LOWERCASE, i) = c))]

LowerChar(c) == IF c \in DOMAIN ToLower THEN ToLower[c] ELSE c

UpperChar(c) == IF c \in DOMAIN ToUpper THEN ToUpper[c] ELSE c

RECURSIVE Lower(_)
\* str.lower()
Lower(s) == IF s = "" THEN "" ELSE LowerChar(Head(s)) \o Lower(Tail(s))

RECURSIVE Upper(_)
\* str.upper()
Upper(s) == IF s = "" THEN "" ELSE UpperChar(Head(s)) \o Upper(Tail(s))

RECURSIVE LStrip(_)
LStrip(s) == IF s # "" /\ IsSpace(Head(s)) THEN LStrip(Tail(s)) ELSE s

RECURSIVE RStrip(_)
RStrip(s) ==
    IF s # "" /\ IsSpace(At(s, Len(s) - 1)) THEN RStrip(Slice(s, 0, Len(s) - 1)) ELSE s

\* str.strip()
Strip(s) == RStrip(LStrip(s))

\* dict.get(key, default)
Get(d, key, default) == IF key \in DOMAIN d THEN d[key] ELSE default

Range(f) == {f[x] : x \in DOMAIN f}

(***************************************************************************)
(* normalize_skill                                                         *)
(***************************************************************************)
\* Variant that looks the lower-cased string up before trimming it.
normalize_skill_strip_late(skill) ==
    Strip(Get(SKILL_SYNONYMS, Lower(skill), Lower(skill)))

\* skill.lower().strip(), then its canonical form in SKILL_SYNONYMS or itself.
normalize_skill(skill) ==
    LET skill_lower == Strip(Lower(skill))
    IN  Get(SKILL_SYNONYMS, skill_lower, skill_lower)


(***************************************************************************)
(* Rationals <<n, d>> with d > 0, standing for Python floats.              *)
(***************************************************************************)
RLt(x, y) == x[1] * y[2] < y[1] * x[2]
RLe(x, y) == x[1] * y[2] <= y[1] * x[2]
REq(x, y) == x[1] * y[2] = y[1] * x[2]

Min(S) == CHOOSE x \in S : \A y \in S : x <= y
Max(S) == CHOOSE x \in S : \A y \in S : x >= y

(***************************************************************************)
(* difflib.SequenceMatcher(None, a, b).ratio() for strings shorter than    *)
(* 200 characters (no junk, no "popular" elements).                        *)
(***************************************************************************)
\* SequenceMatcher.find_longest_match: the longest block a[i:i+k] = b[j:j+k]
\* inside a[alo:ahi] and b[blo:bhi]; of the longest blocks the one starting
\* earliest in a, and of those the one starting earliest in b.
find_longest_match(a, b, alo, ahi, blo, bhi) ==
    LET Block(i, j, k) == Slice(a, i, i + k) = Slice(b, j, j + k)
        Sizes == {k \in 1..Min({ahi - alo, bhi - blo}) :
                     \E i \in alo..(ahi - k), j \in blo..(bhi - k) : Block(i, j, k)}
    IN  IF Sizes = {} THEN <<alo, blo, 0>>
        ELSE LET k == Max(Sizes)
                 i == Min({x \in alo..(ahi - k) :
                              \E y \in blo..(bhi - k) : Block(x, y, k)})
                 j == Min({y \in blo..(bhi - k) : Block(i, y, k)})
             IN  <<i, j, k>>

RECURSIVE matching_size(_, _, _, _, _, _)
\* Sum of the sizes of SequenceMatcher.get_matching_blocks().
matching_size(a, b, alo, ahi, blo, bhi) ==
    LET m == find_longest_match(a, b, alo, ahi, blo, bhi)
        i == m[1]
        j == m[2]
        k == m[3]
    IN  IF k = 0 THEN 0
        ELSE k
             + (IF alo < i /\ blo < j
                THEN matching_size(a, b, alo, i, blo, j) ELSE 0)
             + (IF i + k < ahi /\ j + k < bhi
                THEN matching_size(a, b, i + k, ahi, j + k, bhi) ELSE 0)

\* SequenceMatcher.ratio(): 2.0 * matches / (len(a) + len(b)), 1.0 when both are empty.
SequenceMatcherRatio(a, b) ==
    LET length == Len(a) + Len(b)
    IN  IF length = 0 THEN <<1, 1>>
        ELSE <<2 * matching_size(a, b, 0, Len(a), 0, Len(b)), length>>

(***************************************************************************)
(* fuzzy_match_skill                                                       *)
(***************************************************************************)
\* Variant without the synonym check.
synonym_equivalent_never(skill_lower, candidate_lower) == FALSE

\* Variant that compares the canonical form of the query with the candidate as spelled.
synonym_equivalent_as_spelled(skill_lower, candidate_lower) ==
    normalize_skill(skill_lower) = candidate_lower

\* The synonym check: normalize_skill(skill_lower) == normalize_skill(candidate_lower).
synonym_equivalent(skill_lower, candidate_lower) ==
    normalize_skill(skill_lower) = normalize_skill(candidate_lower)

\* Variant that wants the ratio strictly above the threshold.
replaces_best_above_threshold(ratio, best_ratio, threshold) ==
    RLt(best_ratio, ratio) /\ RLt(threshold, ratio)

\* Variant that lets a later candidate of equal ratio replace the best.
replaces_best_on_tie(ratio, best_ratio, threshold) ==
    RLe(best_ratio, ratio) /\ RLe(threshold, ratio)

\* ratio > best_ratio and ratio >= threshold
replaces_best(ratio, best_ratio, threshold) ==
    RLt(best_ratio, ratio) /\ RLe(threshold, ratio)

RECURSIVE fuzzy_loop(_, _, _, _, _, _)
\* The for loop over skill_list from index n on, with the current best.
fuzzy_loop(skill_lower, skill_list, threshold, n, best_match, best_ratio) ==
    IF n > Len(skill_list) THEN <<best_match, best_ratio>>
    ELSE LET candidate == skill_list[n]
             candidate_lower == Lower(candidate)
             ratio == SequenceMatcherRatio(skill_lower, candidate_lower)
         IN  IF skill_lower = candidate_lower
             THEN <<Some(candidate), <<1, 1>>>>
             ELSE IF synonym_equivalent(skill_lower, candidate_lower)
             THEN <<Some(candidate), <<1, 1>>>>
             ELSE IF replaces_best(ratio, best_ratio, threshold)
             THEN fuzzy_loop(skill_lower, skill_list, threshold, n + 1,
                             Some(candidate), ratio)
             ELSE fuzzy_loop(skill_lower, skill_list, threshold, n + 1,
                             best_match, best_ratio)

fuzzy_match_skill(skill, skill_list, threshold) ==
    fuzzy_loop(Lower(skill), skill_list, threshold, 1, None, <<0, 1>>)


(***************************************************************************)
(* Arithmetic of the scorers.                                              *)
(***************************************************************************)
RECURSIVE GCD(_, _)
GCD(a, b) == IF b = 0 THEN a ELSE GCD(b, a % b)

\* Variant for an accumulator that is assigned instead of added to.
RAdd_assign(x, y) == y

\* x + y
RAdd(x, y) ==
    LET n == x[1] * y[2] + y[1] * x[2]
        d == x[2] * y[2]
        g == GCD(n, d)
    IN  IF n = 0 THEN <<0, 1>> ELSE <<n \div g, d \div g>>

\* Variant that adds weight and ratio (weights are in tenths) instead of
\* multiplying them.
RScale_sum(w, x) == <<w * x[2] + 10 * x[1], x[2]>>

\* w * x for an integer w
RScale(w, x) ==
    LET g == GCD(w * x[1], x[2])
    IN  IF x[1] = 0 THEN <<0, 1>> ELSE <<(w * x[1]) \div g, x[2] \div g>>

\* round(p / q * 100, 2) in hundredths of a percent, for 0 <= p and 0 < q: the
\* nearest hundredth.  The code computes in binary floating point, whose error
\* decides an exact tie between two hundredths; "up" says that it falls above
\* the midpoint.  (The quotient is taken two decimal digits at a time to stay
\* within 32-bit integers.)
RoundPercent(p, q, up) ==
    LET g  == GCD(p, q)
        n  == p \div g
        d  == q \div g
        a1 == (100 * n) \div d
        r1 == (100 * n) % d
        a2 == (100 * r1) \div d
        r2 == (100 * r1) % d
        floor == 100 * a1 + a2
    IN  IF p = 0 THEN 0
        ELSE IF 2 * r2 > d THEN floor + 1
        ELSE IF 2 * r2 < d THEN floor
        ELSE IF up THEN floor + 1 ELSE floor

(***************************************************************************)
(* calculate_skill_match                                                   *)
(***************************************************************************)
\* Variant that keeps the first original of each canonical form.
normalized_items_first_original(skills) ==
    LET canonical(i) == normalize_skill(skills[i])
        IsFirst(i) == \A j \in 1..(i - 1) : canonical(j) # canonical(i)
        firsts == SelectSeq([i \in 1..Len(skills) |-> i], IsFirst)
    IN  [n \in 1..Len(firsts) |-> <<canonical(firsts[n]), skills[firsts[n]]>>]

\* {normalize_skill(s): s for s in skills} as the sequence of its items: one
\* <<canonical, original>> per canonical form, in the order in which the
\* canonical forms first occur, with the last original of each.
normalized_items(skills) ==
    LET canonical(i) == normalize_skill(skills[i])
        IsFirst(i) == \A j \in 1..(i - 1) : canonical(j) # canonical(i)
        Last(i) == Max({j \in 1..Len(skills) : canonical(j) = canonical(i)})
        firsts == SelectSeq([i \in 1..Len(skills) |-> i], IsFirst)
    IN  [n \in 1..Len(firsts) |-> <<canonical(firsts[n]), skills[Last(firsts[n])]>>]

\* list(d.keys())
Keys(items) == [n \in 1..Len(items) |-> items[n][1]]

\* Variant that finds no key.
HasKey_never(items, key) == FALSE

\* key in d
HasKey(items, key) == \E n \in 1..Len(items) : items[n][1] = key

\* d[key]
Lookup(items, key) == items[CHOOSE n \in 1..Len(items) : items[n][1] = key][2]

\* Variant that gives every skill the default weight.
weight_of_default(canonical) == 10

\* SKILL_WEIGHTS.get(canonical, 1.0), in tenths
weight_of(canonical) == Get(SKILL_WEIGHTS, canonical, 10)

\* if best_match: (None and the empty string are false)
Truthy(best_match) == best_match # None /\ best_match[1] # ""

\* Variant that credits a fuzzy match with the full weight.
skill_match_step_full_credit(acc, canonical, original, weight, candidate_items, fuzzy) ==
    [matched_skills |-> Append(acc.matched_skills,
         <<original, HasKey(candidate_items, canonical) \/ Truthy(fuzzy[1])>>),
     total_weight |-> acc.total_weight + weight,
     matched_weight |->
         IF HasKey(candidate_items, canonical) \/ Truthy(fuzzy[1])
         THEN RAdd(acc.matched_weight, <<weight, 1>>) ELSE acc.matched_weight]

\* One pass of the loop body over a required skill: fuzzy is the result of
\* fuzzy_match_skill(canonical, candidate_keys, threshold=0.85).
skill_match_step(acc, canonical, original, weight, candidate_items, fuzzy) ==
    IF HasKey(candidate_items, canonical)
    THEN [matched_skills |-> Append(acc.matched_skills, <<original, TRUE>>),
          total_weight |-> acc.total_weight + weight,
          matched_weight |-> RAdd(acc.matched_weight, <<weight, 1>>)]
    ELSE IF Truthy(fuzzy[1])
    THEN [matched_skills |-> Append(acc.matched_skills, <<original, TRUE>>),
          total_weight |-> acc.total_weight + weight,
          matched_weight |-> RAdd(acc.matched_weight, RScale(weight, fuzzy[2]))]
    ELSE [matched_skills |-> Append(acc.matched_skills, <<original, FALSE>>),
          total_weight |-> acc.total_weight + weight,
          matched_weight |-> acc.matched_weight]

RECURSIVE skill_match_loop(_, _, _, _)
\* The loop over job_skills_normalized.items() from item n on; acc holds
\* matched_skills, total_weight and matched_weight.
skill_match_loop(job_items, candidate_items, n, acc) ==
    IF n > Len(job_items) THEN acc
    ELSE skill_match_loop(job_items, candidate_items, n + 1,
             skill_match_step(acc, job_items[n][1], job_items[n][2],
                 weight_of(job_items[n][1]), candidate_items,
                 fuzzy_match_skill(job_items[n][1], Keys(candidate_items), <<85, 100>>)))

\* return round(match_percentage, 2), matched_skills
skill_match_result(r, up) ==
    <<IF r.total_weight > 0
      THEN RoundPercent(r.matched_weight[1], r.matched_weight[2] * r.total_weight, up)
      ELSE 0,
      r.matched_skills>>

\* Returns <<match_percentage, matched_skills>>; matched_skills is the dict as the
\* sequence of its <<skill, flag>> items.
calculate_skill_match(job_skills, candidate_skills, up) ==
    IF job_skills = <<>> THEN <<0, <<>>>>
    ELSE skill_match_result(
             skill_match_loop(normalized_items(job_skills),
                              normalized_items(candidate_skills), 1,
                              [matched_skills |-> <<>>, total_weight |-> 0,
                               matched_weight |-> <<0, 1>>]),
             up)

(***************************************************************************)
(* calculate_skill_match_detailed                                          *)
(***************************************************************************)
\* candidate_normalized.get(best_match, best_match)
found_original(candidate_items, best_match) ==
    IF HasKey(candidate_items, best_match)
    THEN Lookup(candidate_items, best_match) ELSE best_match

\* The skill_details entry of a required skill before it is matched.
unmatched_detail(canonical, original, weight) ==
    [skill |-> original, canonical |-> canonical, weight |-> weight,
     matched |-> FALSE, match_type |-> None, matched_with |-> None,
     similarity |-> <<0, 1>>]

\* Variant that records every match with similarity 1.0.
matched_detail_full_similarity(detail, match_type, matched_with, similarity) ==
    [detail EXCEPT !.matched = TRUE, !.match_type = Some(match_type),
                   !.matched_with = Some(matched_with), !.similarity = <<1, 1>>]

\* The skill_details entry after a match of the given type.
matched_detail(detail, match_type, matched_with, similarity) ==
    [detail EXCEPT !.matched = TRUE, !.match_type = Some(match_type),
                   !.matched_with = Some(matched_with), !.similarity = similarity]

\* One pass of the loop body over a required skill: fuzzy is the result of
\* fuzzy_match_skill(canonical, candidate_keys, threshold=0.80).
detailed_step(acc, original, weight, detail, candidate_items, fuzzy) ==
    IF HasKey(candidate_items, detail.canonical)
    THEN [acc EXCEPT
             !.matched = Append(@, original),
             !.total_weight = @ + weight,
             !.matched_weight = RAdd(@, <<weight, 1>>),
             !.skill_details = @ @@ (original :>
                 matched_detail(detail, "exact",
                     Lookup(candidate_items, detail.canonical), <<1, 1>>))]
    ELSE IF Truthy(fuzzy[1])
    THEN [acc EXCEPT
             !.matched = Append(@, original),
             !.total_weight = @ + weight,
             !.matched_weight = RAdd(@, RScale(weight, fuzzy[2])),
             !.fuzzy_matches = Append(@,
                 [required |-> original,
                  found |-> found_original(candidate_items, fuzzy[1][1]),
                  similarity |-> fuzzy[2]]),
             !.skill_details = @ @@ (original :>
                 matched_detail(detail, "fuzzy",
                     found_original(candidate_items, fuzzy[1][1]), fuzzy[2]))]
    ELSE [acc EXCEPT
             !.missing = Append(@, original),
             !.total_weight = @ + weight,
             !.skill_details = @ @@ (original :> detail)]

RECURSIVE detailed_loop(_, _, _, _)
\* The loop over job_normalized.items() from item n on; acc holds matched, missing,
\* fuzzy_matches, skill_details, total_weight and matched_weight.
detailed_loop(job_items, candidate_items, n, acc) ==
    IF n > Len(job_items) THEN acc
    ELSE detailed_loop(job_items, candidate_items, n + 1,
             detailed_step(acc, job_items[n][2], weight_of(job_items[n][1]),
                 unmatched_detail(job_items[n][1], job_items[n][2],
                                  weight_of(job_items[n][1])),
                 candidate_items,
                 fuzzy_match_skill(job_items[n][1], Keys(candidate_items), <<80, 100>>)))

\* Variant that does not look at the fuzzy matches.
extra_skills_with_fuzzy_targets(job_items, candidate_items, fuzzy_matches) ==
    LET IsExtra(item) == ~HasKey(job_items, item[1])
        kept == SelectSeq(candidate_items, IsExtra)
    IN  [n \in 1..Len(kept) |-> kept[n][2]]

\* The candidate's skills that are neither required nor the target of a fuzzy match.
extra_skills(job_items, candidate_items, fuzzy_matches) ==
    LET already_matched(original) ==
            \E m \in 1..Len(fuzzy_matches) :
                Lower(fuzzy_matches[m].found) = Lower(original)
        IsExtra(item) == ~HasKey(job_items, item[1]) /\ ~already_matched(item[2])
        kept == SelectSeq(candidate_items, IsExtra)
    IN  [n \in 1..Len(kept) |-> kept[n][2]]

\* The returned dict, from the loop's result r.
detailed_result(r, job_items, candidate_items, job_skills, candidate_skills, up_simple, up_weighted) ==
    [match_percentage |->
         IF job_skills # <<>>
         THEN RoundPercent(Len(r.matched), Len(job_skills), up_simple) ELSE 0,
     weighted_percentage |->
         IF r.total_weight > 0
         THEN RoundPercent(r.matched_weight[1],
                           r.matched_weight[2] * r.total_weight, up_weighted)
         ELSE 0,
     matched_skills |-> r.matched,
     missing_skills |-> r.missing,
     extra_skills |-> extra_skills(job_items, candidate_items, r.fuzzy_matches),
     fuzzy_matches |-> r.fuzzy_matches,
     skill_details |-> r.skill_details,
     total_required |-> Len(job_skills),
     total_matched |-> Len(r.matched),
     total_candidate_skills |-> Len(candidate_skills)]

\* The breakdown built after the empty-list guard.
detailed_breakdown(job_skills, candidate_skills, up_simple, up_weighted) ==
    detailed_result(
        detailed_loop(normalized_items(job_skills), normalized_items(candidate_skills), 1,
            [matched |-> <<>>, missing |-> <<>>, fuzzy_matches |-> <<>>,
             skill_details |-> <<>>, total_weight |-> 0, matched_weight |-> <<0, 1>>]),
        normalized_items(job_skills), normalized_items(candidate_skills),
        job_skills, candidate_skills, up_simple, up_weighted)

\* Variant without the guard for an empty job_skills.
calculate_skill_match_detailed_unguarded(job_skills, candidate_skills, up_simple, up_weighted) ==
    detailed_breakdown(job_skills, candidate_skills, up_simple, up_weighted)

\* skill_details is the dict as a function from the skill to its detail record.
calculate_skill_match_detailed(job_skills, candidate_skills, up_simple, up_weighted) ==
    IF job_skills = <<>>
    THEN [match_percentage |-> 0, weighted_percentage |-> 0, matched_skills |-> <<>>,
          missing_skills |-> <<>>, extra_skills |-> <<>>, fuzzy_matches |-> <<>>,
          skill_details |-> <<>>]
    ELSE detailed_breakdown(job_skills, candidate_skills, up_simple, up_weighted)

(***************************************************************************)
(* Text: code points, clean_text and the word-boundary searches of re.     *)
(***************************************************************************)
\* The printable ASCII characters in code-point order, from the space (32) to the
\* underscore (95) and from a (97) to the tilde (126).
ASCII_32_95 == " !\"#$%&'()*+,-./0123456789:;<=>?@" \o UPPERCASE \o "[\\]^_"
ASCII_97_126 == LOWERCASE \o "{|}~"

IndexIn(s, c) == CHOOSE i \in 0..(Len(s) - 1) : At(s, i) = c

\* ord(c)
Ord == [c \in Chars(ASCII_32_95) \cup Chars(ASCII_97_126) |->
           IF c \in Chars(ASCII_32_95) THEN 32 + IndexIn(ASCII_32_95, c)
           ELSE 97 + IndexIn(ASCII_97_126, c)]

RECURSIVE StrLt(_, _)
\* a < b on str: by code point, a proper prefix first.
StrLt(a, b) ==
    IF b = "" THEN FALSE
    ELSE IF a = "" THEN TRUE
    ELSE IF Head(a) = Head(b) THEN StrLt(Tail(a), Tail(b))
    ELSE Ord[Head(a)] < Ord[Head(b)]

RECURSIVE sorted_lower(_)
\* sorted(list(S), key=str.lower) for a set S of strings that differ when lower-cased.
sorted_lower(S) ==
    IF S = {} THEN <<>>
    ELSE LET first == CHOOSE x \in S : \A y \in S \ {x} : StrLt(Lower(x), Lower(y))
         IN  <<first>> \o sorted_lower(S \ {first})

RECURSIVE collapse_whitespace(_)
\* re.sub(r'\s+', ' ', text)
collapse_whitespace(text) ==
    IF text = "" THEN ""
    ELSE IF IsSpace(Head(text)) THEN " " \o collapse_whitespace(LStrip(text))
    ELSE Head(text) \o collapse_whitespace(Tail(text))

\* The punctuation of the class [^\w\s\.\,\;\:\!\?\-\+\#\@\(\)\[\]\/].
KeptPunctuation == Chars(".,;:!?-+#@()[]/")

IsKept(c) == IsWord(c) \/ IsSpace(c) \/ c \in KeptPunctuation

RECURSIVE remove_special(_)
\* re.sub(r'[^\w\s\.\,\;\:\!\?\-\+\#\@\(\)\[\]\/]', '', text)
remove_special(text) ==
    IF text = "" THEN ""
    ELSE (IF IsKept(Head(text)) THEN Head(text) ELSE "") \o remove_special(Tail(text))

clean_text(text) ==
    IF text = "" THEN "" ELSE remove_special(Strip(collapse_whitespace(text)))

\* \b at offset i of text: exactly one of text[i-1], text[i] is a word character.
word_boundary(text, i) ==
    (i > 0 /\ IsWord(At(text, i - 1))) # (i < Len(text) /\ IsWord(At(text, i)))

\* Variant that matches the literal anywhere, without the word boundaries.
matches_at_substring(literal, text, i) ==
    /\ i + Len(literal) <= Len(text)
    /\ Slice(text, i, i + Len(literal)) = literal

\* r'\b' + re.escape(literal) + r'\b' matches text at offset i.
matches_at(literal, text, i) ==
    /\ i + Len(literal) <= Len(text)
    /\ Slice(text, i, i + Len(literal)) = literal
    /\ word_boundary(text, i)
    /\ word_boundary(text, i + Len(literal))

\* re.search(r'\b' + re.escape(literal) + r'\b', text) finds a match.
search(literal, text) == \E i \in 0..Len(text) : matches_at(literal, text, i)

RECURSIVE finditer(_, _, _)
\* The spans <<start, end>> of re.finditer(r'\b' + re.escape(literal) + r'\b', text),
\* scanning from offset i: leftmost first, the next search resuming at the match's end.
finditer(literal, text, i) ==
    IF i > Len(text) THEN <<>>
    ELSE IF matches_at(literal, text, i)
    THEN <<<<i, i + Len(literal)>>>>
         \o finditer(literal, text, IF literal = "" THEN i + 1 ELSE i + Len(literal))
    ELSE finditer(literal, text, i + 1)

(***************************************************************************)
(* extract_skills                                                          *)
(***************************************************************************)
TECH_SKILLS_SET == {Lower(TECH_SKILLS[n]) : n \in DOMAIN TECH_SKILLS}

\* Variant that adds the entries as they are spelled in the catalog.
tech_skills_found_as_spelled(text_lower) ==
    {skill_lower \in TECH_SKILLS_SET : search(skill_lower, text_lower)}

\* Method 1: the canonical forms of the TECH_SKILLS entries found in the text.
tech_skills_found(text_lower) ==
    {Get(SKILL_SYNONYMS, skill_lower, skill_lower) :
        skill_lower \in {s \in TECH_SKILLS_SET : search(s, text_lower)}}

\* Method 2: the canonical forms of the synonyms found in the text.
synonyms_found(text_lower) ==
    {SKILL_SYNONYMS[synonym] :
        synonym \in {s \in DOMAIN SKILL_SYNONYMS : search(Lower(s), text_lower)}}

\* Method 3: ents is doc.ents as a set of <<text, label>>.
entities_found(ents) ==
    {Get(SKILL_SYNONYMS, Strip(Lower(ent[1])), Strip(Lower(ent[1]))) :
        ent \in {e \in ents : /\ e[2] \in {"ORG", "PRODUCT", "WORK_OF_ART"}
                              /\ 2 <= Len(Strip(Lower(e[1])))
                              /\ Len(Strip(Lower(e[1]))) <= 30
                              /\ Strip(Lower(e[1])) \in TECH_SKILLS_SET}}

\* ents stands for the entities the language model recognises in the text.
extract_skills(text, ents) ==
    IF text = "" THEN <<>>
    ELSE sorted_lower(tech_skills_found(Lower(text)) \cup synonyms_found(Lower(text))
                      \cup entities_found(ents))

(***************************************************************************)
(* CVScoreCheckerViewSet.check_score                                       *)
(***************************************************************************)
RECURSIVE split(_, _, _)
\* s.split(sep) for a one-character sep; piece is the part read since the last sep.
split(s, sep, piece) ==
    IF s = "" THEN <<piece>>
    ELSE IF Head(s) = sep THEN <<piece>> \o split(Tail(s), sep, "")
    ELSE split(Tail(s), sep, piece \o Head(s))

\* [s.strip() for s in required_skills_str.split(',') if s.strip()]
parse_required_skills(required_skills_str) ==
    LET NonBlank(s) == Strip(s) # ""
        kept == SelectSeq(split(required_skills_str, ",", ""), NonBlank)
    IN  [n \in 1..Len(kept) |-> Strip(kept[n])]

\* The digits of an int() literal: digits, single underscores between them.
IsDigits(s) ==
    /\ s # ""
    /\ \A i \in 0..(Len(s) - 1) :
          \/ At(s, i) \in Chars(DIGITS)
          \/ At(s, i) = "_" /\ 0 < i /\ i < Len(s) - 1 /\ At(s, i - 1) # "_"

RECURSIVE digits_value(_, _)
digits_value(s, value) ==
    IF s = "" THEN value
    ELSE IF Head(s) = "_" THEN digits_value(Tail(s), value)
    ELSE digits_value(Tail(s), 10 * value + IndexIn(DIGITS, Head(s)))

\* int(s) for a str s: None when it raises ValueError.
parse_int(s) ==
    LET stripped == Strip(s)
        signed == stripped # "" /\ Head(stripped) \in {"+", "-"}
        digits == IF signed THEN Tail(stripped) ELSE stripped
    IN  IF ~IsDigits(digits) THEN None
        ELSE IF signed /\ Head(stripped) = "-" THEN Some(0 - digits_value(digits, 0))
        ELSE Some(digits_value(digits, 0))

\* int(request.data.get('experience_years', 0))
required_experience_of(data) ==
    IF "experience_years" \in DOMAIN data THEN parse_int(data.experience_years) ELSE Some(0)

\* The lists a set of strings can be turned into by list(set(...)).
orderings(S) ==
    {order \in [1..Cardinality(S) -> S] : \A i, j \in DOMAIN order : order[i] = order[j] => i = j}

\* doc.ents of nlp(text[:100000]): the recognised entities that occur in the text read.
doc_ents(recognised, text) ==
    LET read == Slice(text, 0, Min({Len(text), 100000}))
    IN  {e \in recognised :
            \E i \in 0..(Len(read) - Len(e[1])) : Slice(read, i, i + Len(e[1])) = e[1]}

\* extract_text_from_pdf: pdf is None when reading the file raises, else Some(raw_text).
extract_text_from_pdf(pdf) == IF pdf = None THEN "" ELSE clean_text(pdf[1])

\* The highlight dicts of the occurrences of one skill.
skill_highlights(skill, type, cv_text) ==
    LET spans == finditer(Lower(skill), Lower(cv_text), 0)
    IN  [n \in 1..Len(spans) |->
            [start |-> spans[n][1], end |-> spans[n][2],
             text |-> Slice(cv_text, spans[n][1], spans[n][2]),
             type |-> type, skill |-> skill]]

RECURSIVE highlights_of(_, _, _, _)
\* The highlight dicts appended for skills[n..], in order.
highlights_of(skills, n, type, cv_text) ==
    IF n > Len(skills) THEN <<>>
    ELSE skill_highlights(skills[n], type, cv_text)
         \o highlights_of(skills, n + 1, type, cv_text)

\* The cv_skills whose lower-cased form is not that of a matched skill.
unmatched_cv_skills(cv_skills, matched_skills) ==
    LET NotMatched(skill) ==
            Lower(skill) \notin {Lower(matched_skills[m]) : m \in DOMAIN matched_skills}
    IN  SelectSeq(cv_skills, NotMatched)

\* Variant that appends the skill_found highlights first.
emitted_highlights_found_first(matched_skills, cv_skills, cv_text) ==
    highlights_of(unmatched_cv_skills(cv_skills, matched_skills), 1, "skill_found", cv_text)
    \o highlights_of(matched_skills, 1, "skill_match", cv_text)

\* highlights before sorting: the matched skills' spans, then the other CV skills' spans.
emitted_highlights(matched_skills, cv_skills, cv_text) ==
    highlights_of(matched_skills, 1, "skill_match", cv_text)
    \o highlights_of(unmatched_cv_skills(cv_skills, matched_skills), 1, "skill_found", cv_text)

\* highlights.sort(key=lambda x: x['start']): stable, so the element of index i goes
\* after those that start earlier and those of a lower index that start with it.
sort_by_start(highlights) ==
    LET before(i) == {j \in DOMAIN highlights :
                         \/ highlights[j].start < highlights[i].start
                         \/ highlights[j].start = highlights[i].start /\ j < i}
    IN  [k \in DOMAIN highlights |->
            highlights[CHOOSE i \in DOMAIN highlights : Cardinality(before(i)) = k - 1]]

RECURSIVE remove_overlapping_stale(_, _, _)
\* Variant that never advances last_end.
remove_overlapping_stale(highlights, n, last_end) ==
    IF n > Len(highlights) THEN <<>>
    ELSE IF highlights[n].start >= last_end
    THEN <<highlights[n]>> \o remove_overlapping_stale(highlights, n + 1, last_end)
    ELSE remove_overlapping_stale(highlights, n + 1, last_end)

RECURSIVE remove_overlapping(_, _, _)
\* filtered_highlights, from the highlight of index n on.
remove_overlapping(highlights, n, last_end) ==
    IF n > Len(highlights) THEN <<>>
    ELSE IF highlights[n].start >= last_end
    THEN <<highlights[n]>> \o remove_overlapping(highlights, n + 1, highlights[n]["end"])
    ELSE remove_overlapping(highlights, n + 1, last_end)

\* skill_matches.items() filtered on the flag.
skills_flagged(skill_matches, flag) ==
    LET Flagged(item) == item[2] = flag
        kept == SelectSeq(skill_matches, Flagged)
    IN  [n \in 1..Len(kept) |-> kept[n][1]]

\* calculate_skill_match(all_required_skills, cv_skills) when all_required_skills is
\* not empty, else (0, {}).
score_of(all_required_skills, cv_skills, up) ==
    IF all_required_skills # <<>>
    THEN calculate_skill_match(all_required_skills, cv_skills, up)
    ELSE <<0, <<>>>>

\* The 200 response. The fields cv_experience_years, cv_education and experience_match
\* are computed from cv_text alone by extract_experience_years and
\* extract_education_level and feed no other field; they are not part of the model.
score_response(job_title, required_experience, all_required_skills, cv_text, cv_skills, score) ==
    [status |-> 200,
     data |-> [job_title |-> job_title,
               match_percentage |-> score[1],
               matched_skills |-> skills_flagged(score[2], TRUE),
               missing_skills |-> skills_flagged(score[2], FALSE),
               required_skills |-> all_required_skills,
               cv_skills |-> cv_skills,
               required_experience_years |-> required_experience,
               cv_text |-> cv_text,
               highlights |-> remove_overlapping(
                   sort_by_start(emitted_highlights(skills_flagged(score[2], TRUE),
                                                    cv_skills, cv_text)), 1, -1),
               total_skills_found |-> Len(cv_skills),
               total_skills_matched |-> Len(skills_flagged(score[2], TRUE)),
               total_skills_required |-> Len(all_required_skills)]]

\* The responses once the CV is read: one for each list all_required_skills can be
\* and each direction up that round() can take on a tie.
score_responses(request, required_experience, required_lists, cv_text, cv_skills) ==
    IF cv_text = ""
    THEN {[status |-> 400,
           data |-> [error |-> "Could not extract text from CV. Please ensure it is a valid PDF."]]}
    ELSE {score_response(Get(request.data, "job_title", "Unknown Position"),
                         required_experience, all_required_skills, cv_text, cv_skills,
                         score_of(all_required_skills, cv_skills, up)) :
              all_required_skills \in required_lists, up \in BOOLEAN}

\* required_skills + jd_skills
combined_skills(request, recognised) ==
    parse_required_skills(Get(request.data, "required_skills", ""))
    \o extract_skills(Get(request.data, "job_description", ""),
                      doc_ents(recognised, Get(request.data, "job_description", "")))

\* The lists all_required_skills can be: list(set(required_skills + jd_skills)) in any of
\* the set's iteration orders when a job description is given, else required_skills.
all_required_skills_of(request, recognised) ==
    IF Get(request.data, "job_description", "") # ""
    THEN orderings(Range(combined_skills(request, recognised)))
    ELSE {parse_required_skills(Get(request.data, "required_skills", ""))}

\* The responses check_score can give; recognised stands for the language model. An
\* uncaught ValueError of int() is a 500.
check_score(request, recognised) ==
    IF "cv_file" \notin DOMAIN request.FILES
    THEN {[status |-> 400, data |-> [error |-> "CV file is required"]]}
    ELSE IF required_experience_of(request.data) = None
    THEN {[status |-> 500, data |-> [error |-> "ValueError"]]}
    ELSE score_responses(request, required_experience_of(request.data)[1],
             all_required_skills_of(request, recognised),
             extract_text_from_pdf(request.FILES["cv_file"]),
             extract_skills(extract_text_from_pdf(request.FILES["cv_file"]),
                            doc_ents(recognised, extract_text_from_pdf(request.FILES["cv_file"]))))

(***************************************************************************)
(* Stored records and the batch operations match_candidates and            *)
(* match_all_jobs.  A job is [id, created_at, skills_required], a          *)
(* candidate [id, created_at, skills_extracted], a match [id, job,         *)
(* candidate, match_percentage, keyword_matches, semantic_score] with job  *)
(* and candidate the ids referenced.  Titles, names and the matched_on     *)
(* time stamp are carried through unread and are left out.                 *)
(***************************************************************************)
NoRecords == [jobs |-> {}, candidates |-> {}, matches |-> {}]

\* Model.objects.all() under Meta.ordering = ['-created_at']: the rows by descending
\* created_at; the database fixes no order among rows with the same created_at.
queryset(rows) ==
    {order \in orderings(rows) :
        \A i, j \in DOMAIN order : i < j => order[i].created_at >= order[j].created_at}

\* Is there a Match of the job and the candidate?
match_exists(matches, job, candidate) ==
    \E m \in matches : m.job = job.id /\ m.candidate = candidate.id

\* The primary key the database gives a new Match: one not borne by a stored Match.
next_id(matches) == Max({0} \cup {m.id : m \in matches}) + 1

\* Variant that inserts a Match without looking for one of the pair.
update_or_create_always_creates(matches, job, candidate, score) ==
    matches \cup {[id |-> next_id(matches), job |-> job.id, candidate |-> candidate.id,
                   match_percentage |-> score[1], keyword_matches |-> score[2],
                   semantic_score |-> 0]}

\* Match.objects.update_or_create(job=job, candidate=candidate, defaults={...}) with
\* score the result of calculate_skill_match: the Match of the pair gets the defaults,
\* and is inserted when there is none.
update_or_create(matches, job, candidate, score) ==
    IF match_exists(matches, job, candidate)
    THEN {IF m.job = job.id /\ m.candidate = candidate.id
          THEN [m EXCEPT !.match_percentage = score[1], !.keyword_matches = score[2],
                         !.semantic_score = 0]
          ELSE m : m \in matches}
    ELSE matches \cup {[id |-> next_id(matches), job |-> job.id, candidate |-> candidate.id,
                        match_percentage |-> score[1], keyword_matches |-> score[2],
                        semantic_score |-> 0]}

\* Variant that counts every pass as a creation.
batch_step_counts_created(acc, job, candidate, score, entry) ==
    [matches |-> update_or_create(acc.matches, job, candidate, score),
     matches_created |-> acc.matches_created + 1,
     matches_updated |-> acc.matches_updated,
     results |-> Append(acc.results, entry)]

\* One pass of the loop body of either handler; entry is the dict appended to results.
batch_step(acc, job, candidate, score, entry) ==
    [matches |-> update_or_create(acc.matches, job, candidate, score),
     matches_created |->
         IF match_exists(acc.matches, job, candidate)
         THEN acc.matches_created ELSE acc.matches_created + 1,
     matches_updated |->
         IF match_exists(acc.matches, job, candidate)
         THEN acc.matches_updated + 1 ELSE acc.matches_updated,
     results |-> Append(acc.results, entry)]

\* The loop body of match_candidates for a candidate.
match_candidates_step(acc, job, candidate, score) ==
    batch_step(acc, job, candidate, score,
        [candidate_id |-> candidate.id, match_percentage |-> score[1],
         matched_skills |-> skills_flagged(score[2], TRUE)])

\* The loop body of match_all_jobs for a job.
match_all_jobs_step(acc, job, candidate, score) ==
    batch_step(acc, job, candidate, score,
        [job_id |-> job.id, match_percentage |-> score[1]])

RECURSIVE match_candidates_loop(_, _, _, _, _)
\* for candidate in candidates, from the candidate of index n on; up[id] is the
\* direction in which the percentage of the candidate id is rounded at a midpoint.
match_candidates_loop(job, candidates, n, acc, up) ==
    IF n > Len(candidates) THEN acc
    ELSE match_candidates_loop(job, candidates, n + 1,
             match_candidates_step(acc, job, candidates[n],
                 calculate_skill_match(job.skills_required,
                     candidates[n].skills_extracted, up[candidates[n].id])),
             up)

RECURSIVE match_all_jobs_loop(_, _, _, _, _)
\* for job in jobs, from the job of index n on.
match_all_jobs_loop(candidate, jobs, n, acc, up) ==
    IF n > Len(jobs) THEN acc
    ELSE match_all_jobs_loop(candidate, jobs, n + 1,
             match_all_jobs_step(acc, jobs[n], candidate,
                 calculate_skill_match(jobs[n].skills_required,
                     candidate.skills_extracted, up[jobs[n].id])),
             up)

\* results.sort(key=lambda x: x['match_percentage'], reverse=True): stable, so the
\* entry of index i goes after those of a higher percentage and those of a lower index
\* with its percentage.
sort_by_percentage(results) ==
    LET before(i) == {j \in DOMAIN results :
                         \/ results[j].match_percentage > results[i].match_percentage
                         \/ /\ results[j].match_percentage = results[i].match_percentage
                            /\ j < i}
    IN  [k \in DOMAIN results |->
            results[CHOOSE i \in DOMAIN results : Cardinality(before(i)) = k - 1]]

\* The accumulators before the loop.
batch_start(stored) ==
    [matches |-> stored.matches, matches_created |-> 0, matches_updated |-> 0,
     results |-> <<>>]

\* The outcome of a batch from the loop's result r: the response and the records.
\* id is job_id in match_candidates and candidate_id in match_all_jobs, total is
\* total_candidates and total_jobs.
batch_outcome(stored, id, total, r) ==
    [response |->
         [status |-> 200,
          data |-> [id |-> id, total |-> total, matches_created |-> r.matches_created,
                    matches_updated |-> r.matches_updated,
                    results |-> sort_by_percentage(r.results)]],
     db |-> [stored EXCEPT !.matches = r.matches]]

\* The outcome of a request for a record that is not stored.
not_found(stored) == [response |-> [status |-> 404], db |-> stored]

\* match_candidates(request, pk): candidates is Candidate.objects.all() as evaluated.
match_candidates(pk, stored, candidates, up) ==
    IF \A job \in stored.jobs : job.id # pk THEN not_found(stored)
    ELSE batch_outcome(stored, pk, Len(candidates),
             match_candidates_loop(CHOOSE job \in stored.jobs : job.id = pk,
                                   candidates, 1, batch_start(stored), up))

\* match_all_jobs(request): candidate_id is request.data.get('candidate_id'), jobs is
\* JobDescription.objects.all() as evaluated.
match_all_jobs(candidate_id, stored, jobs, up) ==
    IF \/ candidate_id = None
       \/ \A candidate \in stored.candidates : candidate.id # candidate_id[1]
    THEN not_found(stored)
    ELSE batch_outcome(stored, candidate_id[1], Len(jobs),
             match_all_jobs_loop(
                 CHOOSE candidate \in stored.candidates : candidate.id = candidate_id[1],
                 jobs, 1, batch_start(stored), up))

(***************************************************************************)
(* The other operations on the stored records: MatchViewSet.bulk_create,   *)
(* the creation of a Match through MatchCreateSerializer, and the deletion *)
(* of a job or a candidate.                                                *)
(***************************************************************************)
\* The job and the candidate of the k-th pass of the nested loops of bulk_create.
bulk_job(jobs, candidates, k) == jobs[((k - 1) \div Len(candidates)) + 1]
bulk_candidate(jobs, candidates, k) == candidates[((k - 1) % Len(candidates)) + 1]

\* One pass of the inner loop body of bulk_create.
bulk_create_step(acc, job, candidate, score) ==
    [matches |-> update_or_create(acc.matches, job, candidate, score),
     total_matches |-> acc.total_matches + 1]

RECURSIVE bulk_create_loop(_, _, _, _, _)
\* for job in jobs: for candidate in candidates, from the k-th pass on; up[job id,
\* candidate id] is the direction in which the pair's percentage is rounded at a midpoint.
bulk_create_loop(jobs, candidates, k, acc, up) ==
    IF k > Len(jobs) * Len(candidates) THEN acc
    ELSE bulk_create_loop(jobs, candidates, k + 1,
             bulk_create_step(acc, bulk_job(jobs, candidates, k),
                 bulk_candidate(jobs, candidates, k),
                 calculate_skill_match(
                     bulk_job(jobs, candidates, k).skills_required,
                     bulk_candidate(jobs, candidates, k).skills_extracted,
                     up[bulk_job(jobs, candidates, k).id,
                        bulk_candidate(jobs, candidates, k).id])),
             up)

\* The outcome of bulk_create from the loop's result r.
bulk_create_outcome(stored, jobs, candidates, r) ==
    [response |->
         [status |-> 200,
          data |-> [total_jobs |-> Len(jobs), total_candidates |-> Len(candidates),
                    total_matches |-> r.total_matches]],
     db |-> [stored EXCEPT !.matches = r.matches]]

\* bulk_create(request): jobs and candidates are the two querysets as evaluated.
bulk_create(stored, jobs, candidates, up) ==
    bulk_create_outcome(stored, jobs, candidates,
        bulk_create_loop(jobs, candidates, 1,
            [matches |-> stored.matches, total_matches |-> 0], up))

\* The outcome of a request that validation rejects.
bad_request(stored) == [response |-> [status |-> 400], db |-> stored]

\* MatchCreateSerializer.create(validated_data): the Match inserted for a job and a
\* candidate; semantic_score is None when the request does not give it.
MatchCreateSerializer_create(matches, job, candidate, semantic_score, score) ==
    [id |-> next_id(matches), job |-> job.id, candidate |-> candidate.id,
     match_percentage |-> score[1], keyword_matches |-> score[2],
     semantic_score |-> IF semantic_score = None THEN 0 ELSE semantic_score[1]]

\* serializer.is_valid() of MatchCreateSerializer: job and candidate are primary keys
\* of stored rows, and unique_together = ['job', 'candidate'] admits no second Match
\* of the pair.
is_valid(data, stored) ==
    /\ \E job \in stored.jobs : job.id = data.job
    /\ \E candidate \in stored.candidates : candidate.id = data.candidate
    /\ \A m \in stored.matches : ~(m.job = data.job /\ m.candidate = data.candidate)

\* The outcome of the creation of the Match new.
created(stored, new) ==
    [response |-> [status |-> 201, data |-> new],
     db |-> [stored EXCEPT !.matches = @ \cup {new}]]

\* POST /api/matches/ with data = [job, candidate, semantic_score].
create_match(data, stored, up) ==
    IF ~is_valid(data, stored) THEN bad_request(stored)
    ELSE created(stored,
             MatchCreateSerializer_create(stored.matches,
                 CHOOSE job \in stored.jobs : job.id = data.job,
                 CHOOSE candidate \in stored.candidates : candidate.id = data.candidate,
                 data.semantic_score,
                 calculate_skill_match(
                     (CHOOSE job \in stored.jobs : job.id = data.job).skills_required,
                     (CHOOSE candidate \in stored.candidates :
                          candidate.id = data.candidate).skills_extracted,
                     up)))

\* The answer to a deletion.
no_content(stored) == [response |-> [status |-> 204], db |-> stored]

\* Variant that deletes the job and leaves its matches.
destroy_job_without_cascade(pk, stored) ==
    IF \A job \in stored.jobs : job.id # pk THEN not_found(stored)
    ELSE no_content([stored EXCEPT !.jobs = {job \in @ : job.id # pk}])

\* DELETE /api/jobs/{pk}/: the job goes and, by on_delete=CASCADE, so do its matches.
destroy_job(pk, stored) ==
    IF \A job \in stored.jobs : job.id # pk THEN not_found(stored)
    ELSE no_content([stored EXCEPT !.jobs = {job \in @ : job.id # pk},
                                   !.matches = {m \in @ : m.job # pk}])

\* DELETE /api/candidates/{pk}/: the candidate goes and so do its matches.
destroy_candidate(pk, stored) ==
    IF \A candidate \in stored.candidates : candidate.id # pk THEN not_found(stored)
    ELSE no_content([stored EXCEPT !.candidates = {candidate \in @ : candidate.id # pk},
                                   !.matches = {m \in @ : m.candidate # pk}])

(***************************************************************************)
(* Bounded inputs.                                                         *)
(***************************************************************************)
\* Longest skill list handed to fuzzy_match_skill.
MaxCandidates == 3

\* Sequences over S of length at most n.
SeqUpTo(S, n) == UNION {[1..k -> S] : k \in 0..n}

\* Spellings of a skill: as is, upper-cased, and padded with white space.
Spellings(s) == {s, Upper(s), "  " \o s, s \o "\n", " " \o Upper(s) \o "\t "}

NormalizeInputs ==
    UNION {Spellings(s) :
           s \in DOMAIN SKILL_SYNONYMS \cup Range(SKILL_SYNONYMS) \cup Range(TECH_SKILLS)
                 \cup {"", "zig", "react query", "Node.JS", "e s 6"}}

FuzzyQueries == {"ai", "js", "Docker", " js"}

FuzzyCandidates == {"api", "aim", "ui", "AI", "JS", "javascript", "dockers", "rust"}

\* Longest job_skills and candidate_skills handed to the scorers.
MaxSkills == 2

RequiredPool == {"aws", "html", "Kubernetes", "K8s", "ai", "docker"}

PossessedPool == {"AWS ", "HTML", "k8s", "api", "aim", "dockers"}

\* Longest job_skills of the calls in several spellings and orders.
MaxRequired == 3

\* Skills in several casings: the weights of "ai", "sql" and "docker" are 1.0, 0.9
\* and 1.3, and two of the possessed skills are equally close to "docker".
SpelledRequiredPool == {"ai", "sql", "SQL", "docker", "Docker"}

SpelledPossessedPool == {"sql", "dockers", "ddocker", "k8s"}

\* threshold: 0.85 and 0.80 are the values the scorers pass; 0, 0.5 and 1 lie in
\* the documented range 0-1.
Thresholds == {<<0, 1>>, <<1, 2>>, <<80, 100>>, <<85, 100>>, <<1, 1>>}

\* Longest extracted CV text, in chunks.
MaxChunks == 2

CvChunks == {"Ruby on Rails\n", "REST  API testing, ", "\"C++\" & vue.js ", "AWS/aws; "}

RECURSIVE Concat(_)
Concat(chunks) == IF chunks = <<>> THEN "" ELSE Head(chunks) \o Concat(Tail(chunks))

\* What reading the uploaded file yields: nothing (None) or the raw text.
Pdfs == {None} \cup {Some(Concat(chunks)) : chunks \in SeqUpTo(CvChunks, MaxChunks)}

\* Each optional form field: absent, or present with one of the values.
Optional(field, values) == {<<>>} \cup {field :> v : v \in values}

RequestData ==
    {skills @@ description @@ experience :
        skills \in Optional("required_skills", {"rails", " REST API ,,rails"}),
        description \in Optional("job_description", {"Rails team"}),
        experience \in Optional("experience_years", {" 2", "two"})}

Requests ==
    {[FILES |-> files, data |-> data] :
        files \in Optional("cv_file", Pdfs), data \in RequestData}

\* Requests that take each path of check_score: without a file, with a file that yields
\* no text, with a CV; with experience_years that is not a number.
PathRequests ==
    {[FILES |-> files, data |-> data] :
        files \in Optional("cv_file", {None, Some("Ruby on Rails\n")}),
        data \in {"required_skills" :> "rails", "experience_years" :> "two"}}

\* What the language model recognises as entities, as <<text, label>>.
Recognised == {{}, {<<"C++", "PRODUCT">>, <<"Rails", "PERSON">>}}

\* Texts handed to extract_skills, in chunks.
TextChunks ==
    {"k8s", "JavaScript", "posts", " TS ", "ts_node,", "C++ ", " .NET", "K8s_R", "Sr. "}

ExtractTexts == {Concat(chunks) : chunks \in SeqUpTo(TextChunks, MaxChunks)}

\* The entities the language model may recognise in them.
EntityPool ==
    {<<"ts", "PRODUCT">>, <<"K8s", "ORG">>, <<"C++ ", "WORK_OF_ART">>, <<".NET", "PERSON">>,
     <<"R", "ORG">>, <<"Script", "ORG">>}

\* Most entities recognised in one text.
MaxEntities == 2

RecognisedSets == {ents \in SUBSET EntityPool : Cardinality(ents) <= MaxEntities}

\* Longest raw text handed to clean_text, in characters.
MaxRaw == 4

RawChars == {"a", "B", "_", " ", "\n", "*", "+"}

RawTexts == {None} \cup {Some(Concat(chars)) : chars \in SeqUpTo(RawChars, MaxRaw)}

\* Most rows stored in the two tables together.
MaxRows == 4

\* The instants of the clock that stamps created_at.
Instants == {1, 2}

JobSkillLists == {<<"aws", "docker">>, <<"html", "AWS">>}

CandidateSkillLists == {<<"aws">>, <<"dockers", "AWS ">>}

\* The time stamps of n rows with the ids 1..n given in the order of creation:
\* created_at never decreases with the id.
Stamps(n) == {at \in [1..n -> Instants] : \A i, j \in 1..n : i < j => at[i] <= at[j]}

JobTables(n) ==
    {{[id |-> i, created_at |-> at[i], skills_required |-> skills[i]] : i \in 1..n} :
        at \in Stamps(n), skills \in [1..n -> JobSkillLists]}

CandidateTables(n) ==
    {{[id |-> i, created_at |-> at[i], skills_extracted |-> skills[i]] : i \in 1..n} :
        at \in Stamps(n), skills \in [1..n -> CandidateSkillLists]}

\* A Match of job 1 and candidate 1 left by an earlier request, made with the
\* semantic_score 1.0 when the two had other skills.
EarlierMatch ==
    [id |-> 1, job |-> 1, candidate |-> 1, match_percentage |-> 0,
     keyword_matches |-> <<>>, semantic_score |-> 1]

RecordsOf(nj, nc) ==
    {[jobs |-> jobs, candidates |-> candidates, matches |-> matches] :
        jobs \in JobTables(nj), candidates \in CandidateTables(nc),
        matches \in IF nj > 0 /\ nc > 0 THEN {{}, {EarlierMatch}} ELSE {{}}}

StoredRecords ==
    UNION {UNION {RecordsOf(nj, nc) : nc \in 0..(MaxRows - nj)} : nj \in 0..MaxRows}

\* pk of the requests, stored or not.
RequestedIds == {1, 2}

\* Most rows of each table when requests follow one another.
MaxStored == 2

\* The n jobs and the n candidates stored before the first request of a sequence, each
\* created after the one before.
StoreJobs(n) ==
    {[id |-> i, created_at |-> i,
      skills_required |-> IF i % 2 = 1 THEN <<"aws", "docker">> ELSE <<"html", "AWS">>] :
        i \in 1..n}

StoreCandidates(n) ==
    {[id |-> i, created_at |-> i,
      skills_extracted |-> IF i % 2 = 1 THEN <<"aws">> ELSE <<"dockers", "AWS ">>] :
        i \in 1..n}

\* The records stored before the first request of a sequence.
StoreRecords ==
    {[jobs |-> StoreJobs(nj), candidates |-> StoreCandidates(nc), matches |-> {}] :
        nj \in 0..MaxStored, nc \in 0..MaxStored}
        \cup {[jobs |-> StoreJobs(nj), candidates |-> StoreCandidates(nc),
                matches |-> {EarlierMatch}] : nj \in 1..MaxStored, nc \in 1..MaxStored}

\* The bodies of POST /api/matches/; the semantic_score given is 1.0.
MatchData ==
    [job : RequestedIds, candidate : RequestedIds, semantic_score : {None, Some(1)}]

\* The requests on the stored records, as <<operation, arguments>>.
StoreRequests ==
    {<<"match_candidates", [pk |-> pk]>> : pk \in RequestedIds}
        \cup {<<"match_all_jobs", [candidate_id |-> candidate_id]>> :
                  candidate_id \in {None} \cup {Some(id) : id \in RequestedIds}}
        \cup {<<"bulk_create", [none |-> None]>>}
        \cup {<<"create_match", [data |-> data]>> : data \in MatchData}
        \cup {<<"destroy_job", [pk |-> pk]>> : pk \in RequestedIds}
        \cup {<<"destroy_candidate", [pk |-> pk]>> : pk \in RequestedIds}

(***************************************************************************)
(* Operations.  Each specification calls one function of the engine on     *)
(* inputs drawn from the bounded sets and lets it return.                  *)
(***************************************************************************)
\* A request for f on the stored records.
Request(f, a, stored) == pc = "called" /\ op = f /\ args = a /\ ret = None /\ db = stored

\* A call of an engine function; nothing is stored.
Call(f, a) == Request(f, a, NoRecords)

Return(f, value) ==
    /\ pc = "called"
    /\ op = f
    /\ pc' = "returned"
    /\ ret' = value
    /\ UNCHANGED <<op, args, db>>

Returned(f) == pc = "returned" /\ op = f

\* The handler f answers and leaves the records of its outcome.
Respond(f, outcome) ==
    /\ pc = "called"
    /\ op = f
    /\ pc' = "returned"
    /\ ret' = outcome.response
    /\ db' = outcome.db
    /\ UNCHANGED <<op, args>>

InitNormalize == \E s \in NormalizeInputs : Call("normalize_skill", [skill |-> s])

NormalizeSkill == Return("normalize_skill", normalize_skill(args.skill))

SpecNormalize == InitNormalize /\ [][NormalizeSkill]_vars

InitFuzzy ==
    \E s \in FuzzyQueries, l \in SeqUpTo(FuzzyCandidates, MaxCandidates), t \in Thresholds :
        Call("fuzzy_match_skill", [skill |-> s, skill_list |-> l, threshold |-> t])

FuzzyMatchSkill ==
    Return("fuzzy_match_skill",
           fuzzy_match_skill(args.skill, args.skill_list, args.threshold))

SpecFuzzy == InitFuzzy /\ [][FuzzyMatchSkill]_vars


InitScore ==
    \E f \in {"calculate_skill_match", "calculate_skill_match_detailed"},
       j \in SeqUpTo(RequiredPool, MaxSkills),
       c \in SeqUpTo(PossessedPool, MaxSkills) :
        Call(f, [job_skills |-> j, candidate_skills |-> c])

CalculateSkillMatch ==
    \E up \in BOOLEAN :
        Return("calculate_skill_match",
               calculate_skill_match(args.job_skills, args.candidate_skills, up))

CalculateSkillMatchDetailed ==
    \E up_simple, up_weighted \in BOOLEAN :
        Return("calculate_skill_match_detailed",
               calculate_skill_match_detailed(args.job_skills, args.candidate_skills,
                                              up_simple, up_weighted))

SpecScore == InitScore /\ [][CalculateSkillMatch \/ CalculateSkillMatchDetailed]_vars

\* Calls of the simple form with lists in several spellings and orders.
InitSpelled ==
    \E j \in SeqUpTo(SpelledRequiredPool, MaxRequired),
       c \in SeqUpTo(SpelledPossessedPool, MaxSkills) :
        Call("calculate_skill_match", [job_skills |-> j, candidate_skills |-> c])

SpecSpelled == InitSpelled /\ [][CalculateSkillMatch]_vars

InitText ==
    \/ \E text \in RawTexts : Call("clean_text", [text |-> text])
    \/ \E text \in ExtractTexts, recognised \in RecognisedSets :
           Call("extract_skills", [text |-> text, recognised |-> recognised])

\* clean_text(text); None is as false as the empty string.
CleanText ==
    Return("clean_text", IF args.text = None THEN "" ELSE clean_text(args.text[1]))

\* extract_skills(text), with the entities the language model recognises in the text.
ExtractSkills ==
    Return("extract_skills",
           extract_skills(args.text, doc_ents(args.recognised, args.text)))

SpecText == InitText /\ [][CleanText \/ ExtractSkills]_vars

InitCheck ==
    \E request \in Requests, recognised \in Recognised :
        Call("check_score", [request |-> request, recognised |-> recognised])

\* Variant that stores the CV it has scored as a candidate.
CheckScore_saving ==
    \E response \in check_score(args.request, args.recognised) :
        Respond("check_score",
            [response |-> response,
             db |-> IF response.status # 200 THEN db
                    ELSE [db EXCEPT !.candidates =
                             @ \cup {[id |-> Cardinality(@) + 1, created_at |-> 2,
                                      skills_extracted |-> response.data.cv_skills]}]])

CheckScore ==
    \E response \in check_score(args.request, args.recognised) :
        Return("check_score", response)

SpecCheck == InitCheck /\ [][CheckScore]_vars

\* check_score is requested while records are stored.
InitCheckStored ==
    \E stored \in StoreRecords, request \in PathRequests :
        Request("check_score", [request |-> request, recognised |-> {}], stored)

SpecCheckStored == InitCheckStored /\ [][CheckScore]_vars

InitBatch ==
    \E stored \in StoredRecords :
        \/ \E pk \in RequestedIds : Request("match_candidates", [pk |-> pk], stored)
        \/ \E candidate_id \in {None} \cup {Some(id) : id \in RequestedIds} :
               Request("match_all_jobs", [candidate_id |-> candidate_id], stored)

MatchCandidates ==
    \E candidates \in queryset(db.candidates),
       up \in [{candidate.id : candidate \in db.candidates} -> BOOLEAN] :
        Respond("match_candidates", match_candidates(args.pk, db, candidates, up))

MatchAllJobs ==
    \E jobs \in queryset(db.jobs), up \in [{job.id : job \in db.jobs} -> BOOLEAN] :
        Respond("match_all_jobs", match_all_jobs(args.candidate_id, db, jobs, up))

SpecBatch == InitBatch /\ [][MatchCandidates \/ MatchAllJobs]_vars

InitStore ==
    \E stored \in StoreRecords, request \in StoreRequests :
        Request(request[1], request[2], stored)

\* The next request arrives once the last one is answered.
NextRequest ==
    /\ pc = "returned"
    /\ \E request \in StoreRequests :
           /\ pc' = "called"
           /\ op' = request[1]
           /\ args' = request[2]
           /\ ret' = None
    /\ UNCHANGED db

BulkCreate ==
    \E jobs \in queryset(db.jobs), candidates \in queryset(db.candidates),
       up \in [{job.id : job \in db.jobs} \X {candidate.id : candidate \in db.candidates}
                  -> BOOLEAN] :
        Respond("bulk_create", bulk_create(db, jobs, candidates, up))

CreateMatch ==
    \E up \in BOOLEAN : Respond("create_match", create_match(args.data, db, up))

DestroyJob == Respond("destroy_job", destroy_job(args.pk, db))

DestroyCandidate == Respond("destroy_candidate", destroy_candidate(args.pk, db))

SpecStore ==
    InitStore /\ [][\/ NextRequest
                    \/ MatchCandidates
                    \/ MatchAllJobs
                    \/ BulkCreate
                    \/ CreateMatch
                    \/ DestroyJob
                    \/ DestroyCandidate]_vars

(***************************************************************************)
(* Properties of normalize_skill.                                          *)
(***************************************************************************)
\* C5: canonicalization is idempotent, normalize_skill(normalize_skill(x)) =
\* normalize_skill(x), because no value of SKILL_SYNONYMS is one of its keys; a
\* string the table does not know maps to its lower-cased, trimmed form.
C5_Idempotent ==
    Returned("normalize_skill") =>
        /\ normalize_skill(ret) = ret
        /\ \A k \in DOMAIN SKILL_SYNONYMS : SKILL_SYNONYMS[k] \notin DOMAIN SKILL_SYNONYMS
        /\ Strip(Lower(args.skill)) \notin DOMAIN SKILL_SYNONYMS
               => ret = Strip(Lower(args.skill))

\* A synonym written in upper case and padded with white space has been resolved.
C5_Witness ==
    /\ Returned("normalize_skill")
    /\ args.skill \notin DOMAIN SKILL_SYNONYMS
    /\ Strip(args.skill) # args.skill
    /\ Lower(args.skill) # args.skill
    /\ Strip(Lower(args.skill)) \in DOMAIN SKILL_SYNONYMS
    /\ ret = SKILL_SYNONYMS[Strip(Lower(args.skill))]

(***************************************************************************)
(* Properties of fuzzy_match_skill.                                        *)
(***************************************************************************)
Candidates == DOMAIN args.skill_list

\* The similarity ratio of the n-th candidate to the query.
RatioOf(n) == SequenceMatcherRatio(Lower(args.skill), Lower(args.skill_list[n]))

\* The n-th candidate is case-insensitively equal to the query.
EqualTo(n) == Lower(args.skill_list[n]) = Lower(args.skill)

\* The n-th candidate is equal to the query or has its canonical form.
EquivalentTo(n) ==
    \/ EqualTo(n)
    \/ normalize_skill(Lower(args.skill_list[n])) = normalize_skill(Lower(args.skill))

NoEquivalent == \A n \in Candidates : ~EquivalentTo(n)

Zero == <<0, 1>>
One == <<1, 1>>

\* C6, as amended: with no equal or synonym-equivalent candidate, a candidate whose
\* ratio equals the threshold and is greater than 0 is accepted (a match is
\* returned, and it is that ratio's first candidate unless another ratio is
\* greater); a candidate below the threshold is never returned; when no
\* candidate reaches the threshold the result is (None, 0).
C6_ThresholdBoundary ==
    (Returned("fuzzy_match_skill") /\ NoEquivalent) =>
        /\ \A n \in Candidates :
               (REq(RatioOf(n), args.threshold) /\ RLt(Zero, RatioOf(n))) =>
                   /\ ret[1] # None
                   /\ RLe(args.threshold, ret[2])
                   /\ (\A m \in Candidates : RLe(RatioOf(m), args.threshold))
                          => /\ REq(ret[2], args.threshold)
                             /\ \E m \in Candidates : /\ ret[1] = Some(args.skill_list[m])
                                                      /\ REq(RatioOf(m), args.threshold)
        /\ \A n \in Candidates :
               RLt(RatioOf(n), args.threshold) => ret[1] # Some(args.skill_list[n])
        /\ (\A n \in Candidates : RLt(RatioOf(n), args.threshold))
               => ret = <<None, Zero>>

\* C6 as claimed: every candidate whose ratio equals the threshold is accepted.
C6_AsClaimed ==
    (Returned("fuzzy_match_skill") /\ NoEquivalent) =>
        /\ \A n \in Candidates : REq(RatioOf(n), args.threshold) => ret[1] # None
        /\ \A n \in Candidates :
               RLt(RatioOf(n), args.threshold) => ret[1] # Some(args.skill_list[n])
        /\ (\A n \in Candidates : RLt(RatioOf(n), args.threshold))
               => ret = <<None, Zero>>

\* A candidate exactly at a positive threshold was returned, one below it was not.
C6_Witness ==
    /\ Returned("fuzzy_match_skill")
    /\ NoEquivalent
    /\ RLt(Zero, args.threshold)
    /\ \E n, m \in Candidates :
           /\ REq(RatioOf(n), args.threshold)
           /\ ret = <<Some(args.skill_list[n]), RatioOf(n)>>
           /\ RLt(Zero, RatioOf(m))
           /\ RLt(RatioOf(m), args.threshold)


\* C7: with no equal or synonym-equivalent candidate, the returned candidate
\* has the maximum ratio of all candidates at or above the threshold, and of the
\* candidates sharing that ratio it is the first of the list.
C7_BestFirst ==
    (Returned("fuzzy_match_skill") /\ NoEquivalent /\ ret[1] # None) =>
        \E n \in Candidates :
            /\ ret = <<Some(args.skill_list[n]), RatioOf(n)>>
            /\ RLe(args.threshold, RatioOf(n))
            /\ \A m \in Candidates : RLe(RatioOf(m), RatioOf(n))
            /\ \A m \in Candidates : m < n => RLt(RatioOf(m), RatioOf(n))

\* Two different candidates tie for the best ratio and the earlier one is returned;
\* a candidate of smaller ratio stands before them.
C7_Witness ==
    /\ Returned("fuzzy_match_skill")
    /\ NoEquivalent
    /\ args.threshold = <<80, 100>>
    /\ \E l, n, m \in Candidates :
           /\ l < n /\ n < m
           /\ RLt(Zero, RatioOf(l)) /\ RLt(RatioOf(l), RatioOf(n))
           /\ REq(RatioOf(n), RatioOf(m))
           /\ args.skill_list[n] # args.skill_list[m]
           /\ ret = <<Some(args.skill_list[n]), RatioOf(n)>>

\* The first candidate that is equal or synonym-equivalent to the query.
FirstEquivalent == Min({n \in Candidates : EquivalentTo(n)})

\* C8, as amended: when some candidate is case-insensitively equal to the query,
\* the result is, with ratio 1.0, the first candidate of the list that is equal
\* or synonym-equivalent to the query, whatever merely similar candidates
\* precede it; it is the equal candidate when no synonym-equivalent candidate
\* stands before it.
C8_FirstEquivalent ==
    (Returned("fuzzy_match_skill") /\ \E n \in Candidates : EqualTo(n)) =>
        /\ ret = <<Some(args.skill_list[FirstEquivalent]), One>>
        /\ EqualTo(FirstEquivalent) => Lower(ret[1][1]) = Lower(args.skill)

\* C8 as claimed: the result is a candidate case-insensitively equal to the query.
C8_AsClaimed ==
    (Returned("fuzzy_match_skill") /\ \E n \in Candidates : EqualTo(n)) =>
        /\ ret[1] # None
        /\ Lower(ret[1][1]) = Lower(args.skill)
        /\ ret[2] = One

\* The equal candidate was returned although a similar candidate, good enough for
\* the threshold, stands before it.
C8_Witness ==
    /\ Returned("fuzzy_match_skill")
    /\ args.threshold = <<80, 100>>
    /\ \E m, n \in Candidates :
           /\ m < n
           /\ ~EquivalentTo(m)
           /\ RLe(args.threshold, RatioOf(m)) /\ RLt(Zero, RatioOf(m))
           /\ EqualTo(n)
           /\ ret = <<Some(args.skill_list[n]), One>>


(***************************************************************************)
(* Properties of the scorers.                                              *)
(***************************************************************************)
\* The canonical form of a skill, read off the synonym table.
CanonicalForm(s) ==
    IF Strip(Lower(s)) \in DOMAIN SKILL_SYNONYMS
    THEN SKILL_SYNONYMS[Strip(Lower(s))] ELSE Strip(Lower(s))

CanonicalForms(skills) == {CanonicalForm(skills[i]) : i \in DOMAIN skills}

Required == CanonicalForms(args.job_skills)
Possessed == CanonicalForms(args.candidate_skills)

ReturnedScore ==
    Returned("calculate_skill_match") \/ Returned("calculate_skill_match_detailed")

\* The percentage of the simple form, the weighted percentage of the detailed form.
WeightedPercentage ==
    IF op = "calculate_skill_match" THEN ret[1] ELSE ret.weighted_percentage

\* C1: with an empty required list the simple form returns (0.0, {}) and the
\* detailed form a breakdown whose lists and detail map are empty and whose two
\* percentages are 0.0, whatever the possessed list.
C1_EmptyRequired ==
    /\ (Returned("calculate_skill_match") /\ args.job_skills = <<>>)
           => ret = <<0, <<>>>>
    /\ (Returned("calculate_skill_match_detailed") /\ args.job_skills = <<>>)
           => /\ ret.matched_skills = <<>>
              /\ ret.missing_skills = <<>>
              /\ ret.extra_skills = <<>>
              /\ ret.fuzzy_matches = <<>>
              /\ DOMAIN ret.skill_details = {}
              /\ ret.match_percentage = 0
              /\ ret.weighted_percentage = 0

\* The detailed form has returned for an empty required list and a possessed list
\* of several skills.
C1_Witness ==
    /\ Returned("calculate_skill_match_detailed")
    /\ args.job_skills = <<>>
    /\ Cardinality(Possessed) > 1
    /\ ret.extra_skills = <<>>

\* C2: when the non-empty required list and the possessed list have the same set
\* of canonical forms, the simple form returns 100.0 with every required skill
\* flagged True and the detailed form a weighted percentage of 100.0.
C2_SameCanonicalForms ==
    (ReturnedScore /\ args.job_skills # <<>> /\ Required = Possessed) =>
        /\ WeightedPercentage = 10000
        /\ op = "calculate_skill_match"
               => /\ \A n \in DOMAIN ret[2] : ret[2][n][2] = TRUE
                  /\ {CanonicalForm(ret[2][n][1]) : n \in DOMAIN ret[2]} = Required

\* Two skills are required, and possessed in other spellings: no string of one list
\* is in the other.
C2_Witness ==
    /\ Returned("calculate_skill_match")
    /\ Required = Possessed
    /\ Cardinality(Required) = 2
    /\ \A i \in DOMAIN args.job_skills, j \in DOMAIN args.candidate_skills :
           args.job_skills[i] # args.candidate_skills[j]
    /\ ret[1] = 10000


RECURSIVE RSum(_)
\* The sum of the values of a function to rationals.
RSum(f) ==
    IF DOMAIN f = {} THEN Zero
    ELSE LET x == CHOOSE x \in DOMAIN f : TRUE
         IN  RAdd(f[x], RSum([y \in DOMAIN f \ {x} |-> f[y]]))

\* The weight the taxonomy gives a canonical form, in tenths.
WeightOf(c) == IF c \in DOMAIN SKILL_WEIGHTS THEN SKILL_WEIGHTS[c] ELSE 10

\* The fuzzy threshold of the called form.
ScorerThreshold == IF op = "calculate_skill_match" THEN <<85, 100>> ELSE <<80, 100>>

\* The ratio credited to a required canonical form: 1 when it is possessed,
\* otherwise the greatest ratio at or above the threshold to a possessed
\* canonical form, and 0 when there is none.
CreditedRatio(c) ==
    LET ratios == {SequenceMatcherRatio(c, k) : k \in Possessed}
        good == {r \in ratios : RLe(ScorerThreshold, r)}
    IN  IF c \in Possessed THEN One
        ELSE IF good = {} THEN Zero
        ELSE CHOOSE r \in good : \A q \in good : RLe(q, r)

TotalWeight == RSum([c \in Required |-> <<WeightOf(c), 1>>])

MatchedWeight ==
    RSum([c \in Required |-> <<WeightOf(c) * CreditedRatio(c)[1], CreditedRatio(c)[2]>>])

\* x is p / q * 100 rounded to 2 decimals, in hundredths: it lies within half a
\* hundredth of the exact value.
IsRounded(x, p, q) ==
    LET g == GCD(p, q)
        n == p \div g
        d == q \div g
    IN  /\ 2 * (10000 * n - x * d) <= d
        /\ 2 * (x * d - 10000 * n) <= d

\* C3: the weighted percentage is matchedWeight / totalWeight x 100 rounded to 2
\* decimals, totalWeight summing the weights of the distinct required canonical
\* forms and matchedWeight the full weight of an exact match, weight x ratio of a
\* fuzzy match and nothing for a miss; two required skills whose weights are as
\* 2.0 to 1.0, only the heavier one matched (exactly), give 66.67.
C3_WeightedPercentage ==
    (ReturnedScore /\ args.job_skills # <<>>) =>
        /\ IsRounded(WeightedPercentage,
                     MatchedWeight[1] * TotalWeight[2],
                     MatchedWeight[2] * TotalWeight[1])
        /\ \A a, b \in Required :
               ( /\ Required = {a, b}
                 /\ WeightOf(a) = 2 * WeightOf(b)
                 /\ a \in Possessed
                 /\ CreditedRatio(b) = Zero ) => WeightedPercentage = 6667

\* aws (1.4) and html (0.7) are required and only aws is possessed: 66.67.
C3_Witness ==
    /\ Returned("calculate_skill_match")
    /\ Required = {"aws", "html"}
    /\ WeightOf("aws") = 2 * WeightOf("html")
    /\ "aws" \in Possessed
    /\ CreditedRatio("html") = Zero
    /\ ret[1] = 6667

\* C4: the percentage of the simple form and both percentages of the detailed form
\* lie in [0, 100].
C4_PercentageRange ==
    /\ Returned("calculate_skill_match") => (0 <= ret[1] /\ ret[1] <= 10000)
    /\ Returned("calculate_skill_match_detailed") =>
           /\ 0 <= ret.match_percentage /\ ret.match_percentage <= 10000
           /\ 0 <= ret.weighted_percentage /\ ret.weighted_percentage <= 10000

\* Every required skill is matched, one of them only fuzzily: the unweighted
\* percentage is 100 and the weighted one lies strictly between 0 and 100.
C4_Witness ==
    /\ Returned("calculate_skill_match_detailed")
    /\ ret.match_percentage = 10000
    /\ 0 < ret.weighted_percentage /\ ret.weighted_percentage < 10000
    /\ ret.fuzzy_matches # <<>>


(***************************************************************************)
(* The highlight locator of check_score.                                   *)
(***************************************************************************)
\* check_score has answered with the score.
Scored == Returned("check_score") /\ ret.status = 200

\* The spans kept in the response.
KeptSpans == Range(ret.data.highlights)

\* The spans found for the skills of a list, under a type tag.
SpansOf(skills, type) ==
    UNION {Range(skill_highlights(skills[n], type, ret.data.cv_text)) : n \in DOMAIN skills}

\* Every span found before sorting and filtering: those of the matched skills, and
\* those of the CV's skills that are not a matched skill in another casing.
EmittedSpans ==
    LET matched == ret.data.matched_skills
        Other(skill) == \A m \in DOMAIN matched : Lower(matched[m]) # Lower(skill)
    IN  SpansOf(matched, "skill_match")
        \cup SpansOf(SelectSeq(ret.data.cv_skills, Other), "skill_found")

DiscardedSpans == EmittedSpans \ KeptSpans

IndexOf(skills, skill) == CHOOSE n \in DOMAIN skills : skills[n] = skill

\* The place of a span's skill in the order of emission: the matched skills in their
\* order, then the skills of the CV in theirs.
Priority(h) ==
    IF h.type = "skill_match" THEN IndexOf(ret.data.matched_skills, h.skill)
    ELSE Len(ret.data.matched_skills) + IndexOf(ret.data.cv_skills, h.skill)

Overlap(h, g) == h.start < g["end"] /\ g.start < h["end"]

\* C9: the highlight list returned by check_score is sorted by start offset and free of
\* overlaps: each span ends no later than the next one starts, and the starts increase
\* strictly.
C9_SortedNonOverlapping ==
    Scored =>
        \A i \in 1..(Len(ret.data.highlights) - 1) :
            /\ ret.data.highlights[i]["end"] <= ret.data.highlights[i + 1].start
            /\ ret.data.highlights[i].start < ret.data.highlights[i + 1].start

\* check_score returned at least two highlights and discarded an overlapping one.
C9_Witness ==
    /\ Scored
    /\ Len(ret.data.highlights) >= 2
    /\ \E d \in DiscardedSpans, k \in KeptSpans : Overlap(k, d)

\* C10, as amended: a kept span is the first emitted of the spans that start where it
\* starts (skill_match before skill_found, each in the order of its skill list), so a
\* skill_found span is never kept where a skill_match span starts; and every discarded
\* span starts inside a kept span that starts no later than it does.
C10_FirstEmittedKept ==
    Scored =>
        /\ \A k \in KeptSpans, e \in EmittedSpans :
               e.start = k.start => Priority(k) <= Priority(e)
        /\ \A d \in DiscardedSpans :
               \E k \in KeptSpans : k.start <= d.start /\ d.start < k["end"]

\* C10, as claimed: a skill_found span is never kept where a skill_match span starts,
\* and in every overlap between a kept span and a discarded span the kept span starts
\* no later than the discarded one.
C10_AsClaimed ==
    Scored =>
        /\ \A k \in KeptSpans, e \in EmittedSpans :
               e.start = k.start /\ e.type = "skill_match" => k.type = "skill_match"
        /\ \A k \in KeptSpans, d \in DiscardedSpans :
               Overlap(k, d) => k.start <= d.start

\* A skill_match span is kept where a skill_found span starts too, and another
\* discarded span overlaps a kept span that starts after it.
C10_Witness ==
    /\ Scored
    /\ \E k \in KeptSpans, d \in DiscardedSpans :
           k.type = "skill_match" /\ d.type = "skill_found" /\ d.start = k.start
    /\ \E k \in KeptSpans, d \in DiscardedSpans : Overlap(k, d) /\ d.start < k.start

(***************************************************************************)
(* extract_skills and clean_text.                                          *)
(***************************************************************************)
\* The taxonomy: the catalog skills, lower-cased, and the synonyms.
TaxonomyEntries == {Lower(TECH_SKILLS[n]) : n \in DOMAIN TECH_SKILLS} \cup DOMAIN SKILL_SYNONYMS

\* The canonical form of a taxonomy entry.
EntryCanonical(entry) == IF entry \in DOMAIN SKILL_SYNONYMS THEN SKILL_SYNONYMS[entry] ELSE entry

\* Is the character of text at offset i a word character? (No character lies outside.)
WordAt(text, i) == 0 <= i /\ i < Len(text) /\ At(text, i) \in WordChars

\* The entry occurs in the lower-cased text at offset i.
OccursAt(entry, text, i) ==
    i + Len(entry) <= Len(text) /\ Slice(Lower(text), i, i + Len(entry)) = entry

\* The occurrence at offset i has a word boundary on both sides: word characters
\* and other characters meet at each of its two ends.
WholeWordAt(entry, text, i) ==
    /\ OccursAt(entry, text, i)
    /\ WordAt(text, i - 1) # WordAt(text, i)
    /\ WordAt(text, i + Len(entry) - 1) # WordAt(text, i + Len(entry))

\* The occurrence at offset i lies strictly inside a longer run of word characters.
InsideWordAt(entry, text, i) ==
    /\ OccursAt(entry, text, i)
    /\ \A j \in i..(i + Len(entry) - 1) : WordAt(text, j)
    /\ WordAt(text, i - 1) \/ WordAt(text, i + Len(entry))

Offsets(text) == 0..Len(text)

\* extract_skills has returned; ScanOnly: no entity was offered to it.
Extracted == Returned("extract_skills")
ScanOnly == Extracted /\ args.recognised = {}

\* C11: the text scan of extract_skills counts a taxonomy entry as found only where it
\* occurs in the lower-cased text with a word boundary on both sides: every skill the
\* scan returns is the canonical form of an entry with such an occurrence, which does
\* not lie strictly inside a longer run of word characters.
C11_WholeWordOnly ==
    ScanOnly =>
        \A skill \in Range(ret) :
            \E entry \in TaxonomyEntries :
                /\ EntryCanonical(entry) = skill
                /\ \E i \in Offsets(args.text) :
                       WholeWordAt(entry, args.text, i) /\ ~InsideWordAt(entry, args.text, i)

\* The scan met an entry only inside longer words and did not return its canonical form.
C11_Witness ==
    /\ ScanOnly
    /\ \E entry \in TaxonomyEntries :
           /\ \E i \in Offsets(args.text) : InsideWordAt(entry, args.text, i)
           /\ \A i \in Offsets(args.text) :
                  OccursAt(entry, args.text, i) => InsideWordAt(entry, args.text, i)
           /\ EntryCanonical(entry) \notin Range(ret)

\* C12: every element returned by extract_skills is the canonical form of a taxonomy
\* entry and a fixed point of normalize_skill; no synonym is returned as such (the text
\* 'k8s' yields exactly ['kubernetes']); the list has no duplicates and is sorted
\* case-insensitively.
C12_CanonicalSorted ==
    Extracted =>
        /\ \A skill \in Range(ret) :
               /\ \E entry \in TaxonomyEntries : EntryCanonical(entry) = skill
               /\ normalize_skill(skill) = skill
               /\ skill \notin DOMAIN SKILL_SYNONYMS
        /\ args.text = "k8s" => ret = <<"kubernetes">>
        /\ \A i \in 1..(Len(ret) - 1) : StrLt(Lower(ret[i]), Lower(ret[i + 1]))

\* A synonym stands in the text as a whole word and the list returned holds its
\* canonical form among others.
C12_Witness ==
    /\ Extracted
    /\ Len(ret) >= 2
    /\ \E synonym \in DOMAIN SKILL_SYNONYMS :
           /\ \E i \in Offsets(args.text) : WholeWordAt(synonym, args.text, i)
           /\ SKILL_SYNONYMS[synonym] \in Range(ret)

\* The entities of the text that the fold considers: those bearing one of its labels.
FoldedCandidates ==
    {e \in doc_ents(args.recognised, args.text) : e[2] \in {"ORG", "PRODUCT", "WORK_OF_ART"}}

\* C13: for every recognised candidate folded into extraction, trimmed and lower-cased,
\* that is a taxonomy entry (a catalog skill or a synonym-table key), the canonical form
\* of that entry is in the result of extract_skills.
C13_AsClaimed ==
    Extracted =>
        \A e \in FoldedCandidates :
            Strip(Lower(e[1])) \in TaxonomyEntries =>
                EntryCanonical(Strip(Lower(e[1]))) \in Range(ret)

Cleaned == Returned("clean_text")

\* The characters the normalizer may leave in its output.
AllowedOutput == WordChars \cup Chars(".,;:!?-+#@()[]/") \cup {" "}

\* C14: the output of clean_text has no run of two or more whitespace characters, no
\* leading or trailing whitespace, and only word characters, allow-listed punctuation
\* and single spaces; empty or None input yields the empty string.
C14_AsClaimed ==
    Cleaned =>
        /\ \A i \in 0..(Len(ret) - 2) : ~(IsSpace(At(ret, i)) /\ IsSpace(At(ret, i + 1)))
        /\ ret # "" => ~IsSpace(At(ret, 0)) /\ ~IsSpace(At(ret, Len(ret) - 1))
        /\ \A i \in 0..(Len(ret) - 1) : At(ret, i) \in AllowedOutput
        /\ args.text \in {None, Some("")} => ret = ""

Detailed == Returned("calculate_skill_match_detailed")

\* The fields of the breakdown returned for a required list that is not empty.
BreakdownFields ==
    {"match_percentage", "weighted_percentage", "matched_skills", "missing_skills",
     "extra_skills", "fuzzy_matches", "skill_details",
     "total_required", "total_matched", "total_candidate_skills"}

\* C15: calculate_skill_match_detailed returns a breakdown with the same fields for
\* every input, the three counts included, also when the required list is empty.
C15_AsClaimed == Detailed => DOMAIN ret = BreakdownFields

(***************************************************************************)
(* The batch operations.                                                   *)
(***************************************************************************)
\* A batch operation has answered with its results.
Matched ==
    (Returned("match_candidates") \/ Returned("match_all_jobs")) /\ ret.status = 200

\* The identifier an entry of the results carries.
IdOf(entry) == IF op = "match_candidates" THEN entry.candidate_id ELSE entry.job_id

\* C17: the results of match_candidates and match_all_jobs are in descending order of
\* match_percentage, and the entries of one match_percentage are in the order of their
\* identifier (candidate id, respectively job id), all ascending or all descending.
C17_AsClaimed ==
    Matched =>
        LET results == ret.data.results
            Tied(i, j) == i < j /\ results[i].match_percentage = results[j].match_percentage
        IN  /\ \A i, j \in DOMAIN results :
                   i < j => results[i].match_percentage >= results[j].match_percentage
            /\ \/ \A i, j \in DOMAIN results : Tied(i, j) => IdOf(results[i]) < IdOf(results[j])
               \/ \A i, j \in DOMAIN results : Tied(i, j) => IdOf(results[i]) > IdOf(results[j])

(***************************************************************************)
(* Grouping, match cases and extra skills of the scorers.                  *)
(***************************************************************************)
\* The last string of a list that has the canonical form c.
LastOriginal(skills, c) ==
    skills[CHOOSE i \in DOMAIN skills :
               /\ CanonicalForm(skills[i]) = c
               /\ \A j \in DOMAIN skills : CanonicalForm(skills[j]) = c => j <= i]

\* The keys of the flag map (simple form) or of the detail map (detailed form).
MapKeys ==
    IF op = "calculate_skill_match"
    THEN {ret[2][n][1] : n \in DOMAIN ret[2]} ELSE DOMAIN ret.skill_details

\* The number of entries of that map.
MapSize ==
    IF op = "calculate_skill_match" THEN Len(ret[2]) ELSE Cardinality(DOMAIN ret.skill_details)

\* C18: whatever duplicates and casings the lists hold, both scorers return, and the
\* flag map (simple form) and the detail map (detailed form) have exactly one entry per
\* distinct required canonical form, keyed by the last original string of the required
\* list with that canonical form.
C18_OneEntryPerCanonical ==
    ReturnedScore =>
        /\ MapSize = Cardinality(Required)
        /\ MapKeys = {LastOriginal(args.job_skills, c) : c \in Required}

\* Two different spellings of one canonical form are required, and a map keyed by the
\* later one has been returned.
C18_Witness ==
    /\ ReturnedScore
    /\ Len(args.job_skills) = 2
    /\ args.job_skills[1] # args.job_skills[2]
    /\ CanonicalForm(args.job_skills[1]) = CanonicalForm(args.job_skills[2])
    /\ MapKeys = {args.job_skills[2]}
    /\ \E i, j \in DOMAIN args.candidate_skills :
           i # j /\ args.candidate_skills[i] = args.candidate_skills[j]

\* The skill_details entry of a required canonical form.
DetailOf(c) == ret.skill_details[LastOriginal(args.job_skills, c)]

\* The three cases of a required canonical form under the threshold 0.80.
ExactCase(c) == c \in Possessed
FuzzyCase(c) == c \notin Possessed /\ RLt(Zero, CreditedRatio(c))
NoneCase(c) == c \notin Possessed /\ CreditedRatio(c) = Zero

\* The fuzzy_matches entries recorded for a required skill.
PairingsOf(required) ==
    {m \in Range(ret.fuzzy_matches) : m.required = required}

\* C19: in the detailed breakdown every required canonical form is in exactly one of
\* three cases. Exact (it is a possessed canonical form): matched, match_type 'exact',
\* similarity 1.0, matched_with the possessed original of that canonical form. Fuzzy
\* (otherwise, some possessed canonical form has a ratio of 0.80 or more): matched,
\* match_type 'fuzzy', similarity the best ratio, and the pairing is in fuzzy_matches.
\* None (otherwise): not matched, similarity 0, no matched_with, in missing_skills.
C19_ThreeCases ==
    Detailed =>
        \A c \in Required :
            LET original == LastOriginal(args.job_skills, c)
            IN  /\ ExactCase(c) =>
                       /\ DetailOf(c).matched
                       /\ DetailOf(c).match_type = Some("exact")
                       /\ REq(DetailOf(c).similarity, One)
                       /\ DetailOf(c).matched_with
                              = Some(LastOriginal(args.candidate_skills, c))
                       /\ original \in Range(ret.matched_skills)
                       /\ original \notin Range(ret.missing_skills)
                       /\ PairingsOf(original) = {}
                /\ FuzzyCase(c) =>
                       /\ DetailOf(c).matched
                       /\ DetailOf(c).match_type = Some("fuzzy")
                       /\ REq(DetailOf(c).similarity, CreditedRatio(c))
                       /\ \E k \in Possessed :
                              /\ REq(SequenceMatcherRatio(c, k), CreditedRatio(c))
                              /\ DetailOf(c).matched_with
                                     = Some(LastOriginal(args.candidate_skills, k))
                       /\ original \in Range(ret.matched_skills)
                       /\ original \notin Range(ret.missing_skills)
                       /\ \E m \in PairingsOf(original) :
                              /\ PairingsOf(original) = {m}
                              /\ Some(m.found) = DetailOf(c).matched_with
                              /\ REq(m.similarity, CreditedRatio(c))
                /\ NoneCase(c) =>
                       /\ ~DetailOf(c).matched
                       /\ DetailOf(c).match_type = None
                       /\ REq(DetailOf(c).similarity, Zero)
                       /\ DetailOf(c).matched_with = None
                       /\ original \in Range(ret.missing_skills)
                       /\ original \notin Range(ret.matched_skills)
                       /\ PairingsOf(original) = {}

\* A breakdown with a fuzzy match next to an exact match.
C19_Witness ==
    /\ Detailed
    /\ \E c, e \in Required :
           /\ FuzzyCase(c)
           /\ ExactCase(e)
           /\ DetailOf(c).match_type = Some("fuzzy")
           /\ DetailOf(e).match_type = Some("exact")
    /\ Len(args.candidate_skills) = 2

\* The possessed originals that are the target of a fuzzy match.
FuzzyTargets == {m.found : m \in Range(ret.fuzzy_matches)}

\* The possessed originals, one per canonical form, whose canonical form is not
\* required and which no fuzzy match has for target.
UnusedPossessed ==
    {LastOriginal(args.candidate_skills, k) : k \in Possessed \ Required} \ FuzzyTargets

\* extra_skills holds exactly the unused possessed originals, each once, and none of
\* them is found in fuzzy_matches or matched_with in skill_details.
ExtraAreUnused ==
    /\ Range(ret.extra_skills) = UnusedPossessed
    /\ Len(ret.extra_skills) = Cardinality(UnusedPossessed)
    /\ \A extra \in Range(ret.extra_skills) :
           /\ extra \notin FuzzyTargets
           /\ \A original \in DOMAIN ret.skill_details :
                  ret.skill_details[original].matched_with # Some(extra)

\* C20 (amended): for a required list that is not empty, extra_skills of the detailed
\* breakdown holds exactly the possessed skills, in their original spelling and one
\* per canonical form, whose canonical form is not required and which are not the
\* target of a fuzzy match; for an empty required list extra_skills is empty.
C20_ExtraSkills ==
    Detailed =>
        IF args.job_skills # <<>> THEN ExtraAreUnused ELSE ret.extra_skills = <<>>

\* C20 as stated: in every detailed breakdown extra_skills holds exactly the possessed
\* skills whose canonical form is not required and which are not the target of a
\* fuzzy match.
C20_AsClaimed == Detailed => ExtraAreUnused

\* One possessed skill was consumed by a fuzzy match and another is reported as extra.
C20_Witness ==
    /\ Detailed
    /\ FuzzyTargets # {}
    /\ ret.extra_skills # <<>>
    /\ Cardinality(Possessed \ Required) > Len(ret.extra_skills)

(***************************************************************************)
(* The short-circuit of fuzzy_match_skill.                                 *)
(***************************************************************************)
\* The n-th candidate is case-insensitively equal to the query or has its canonical form.
SameSkill(n) ==
    \/ Lower(args.skill_list[n]) = Lower(args.skill)
    \/ CanonicalForm(args.skill_list[n]) = CanonicalForm(args.skill)

\* C21: fuzzy_match_skill returns ratio 1.0 whenever some candidate is equal to the
\* query without regard to case or has its canonical form, wherever it stands in the
\* list and whatever similar candidates precede it; a ratio below 1.0 is returned only
\* when no candidate is equal or synonym-equivalent to the query.
C21_EquivalentGivesOne ==
    Returned("fuzzy_match_skill") =>
        /\ (\E n \in Candidates : SameSkill(n)) =>
               /\ ret[2] = One
               /\ \E n \in Candidates : SameSkill(n) /\ ret[1] = Some(args.skill_list[n])
        /\ RLt(ret[2], One) => \A n \in Candidates : ~SameSkill(n)

\* A synonym of the query, spelled differently, was returned with ratio 1.0 although a
\* similar candidate, good enough for the threshold, stands before it.
C21_Witness ==
    /\ Returned("fuzzy_match_skill")
    /\ \E m, n \in Candidates :
           /\ m < n
           /\ ~SameSkill(m)
           /\ RLe(args.threshold, RatioOf(m)) /\ RLt(Zero, RatioOf(m))
           /\ Lower(args.skill_list[n]) # Lower(args.skill)
           /\ CanonicalForm(args.skill_list[n]) = CanonicalForm(args.skill)
           /\ ret = <<Some(args.skill_list[n]), One>>

(***************************************************************************)
(* The tokens of clean_text.                                               *)
(***************************************************************************)
RECURSIVE RunsFrom(_, _, _, _)
\* The maximal runs of word characters of text from offset i on, after the runs
\* already closed and the run that is open.
RunsFrom(text, i, open, closed) ==
    IF i >= Len(text)
    THEN IF open = "" THEN closed ELSE Append(closed, open)
    ELSE IF At(text, i) \in WordChars
    THEN RunsFrom(text, i + 1, open \o At(text, i), closed)
    ELSE RunsFrom(text, i + 1, "", IF open = "" THEN closed ELSE Append(closed, open))

\* The tokens of a text: its maximal runs of word characters, in order.
WordRuns(text) == RunsFrom(text, 0, "", <<>>)

\* C22: clean_text neither merges nor reorders the retained tokens: the runs of word
\* characters of the output are those of the input, in the same order, so that a whole
\* word of the cleaned text is a whole word of the input.
C22_AsClaimed ==
    (Cleaned /\ args.text # None) => WordRuns(ret) = WordRuns(args.text[1])

(***************************************************************************)
(* The stored matches.                                                     *)
(***************************************************************************)
\* The matches stored for a job and a candidate, by their ids.
MatchesOf(job, candidate) == {m \in db.matches : m.job = job /\ m.candidate = candidate}

\* At most one Match is stored per (job, candidate) pair.
UniquePairs ==
    \A m, n \in db.matches : (m.job = n.job /\ m.candidate = n.candidate) => m = n

\* The stored jobs and candidates that the request being served matches with one
\* another, as <<job, candidate>> pairs of rows.
Pairing ==
    IF op = "match_candidates"
    THEN {job \in db.jobs : job.id = args.pk} \X db.candidates
    ELSE IF op = "match_all_jobs"
    THEN db.jobs \X {candidate \in db.candidates : Some(candidate.id) = args.candidate_id}
    ELSE IF op = "bulk_create"
    THEN db.jobs \X db.candidates
    ELSE IF op = "create_match"
    THEN {job \in db.jobs : job.id = args.data.job}
             \X {candidate \in db.candidates : candidate.id = args.data.candidate}
    ELSE {}

\* The pairs of the request that have a Match already.
Rematched == {pair \in Pairing : MatchesOf(pair[1].id, pair[2].id) # {}}

\* The Match m carries the score of the job and the candidate.
Scores(m, job, candidate) ==
    \E up \in BOOLEAN :
        /\ m.match_percentage
               = calculate_skill_match(job.skills_required, candidate.skills_extracted, up)[1]
        /\ m.keyword_matches
               = calculate_skill_match(job.skills_required, candidate.skills_extracted, up)[2]

\* The step leaves the one Match of the pair in place, with its id, and gives it the
\* score of the pair.
Refreshes(pair) ==
    \E m \in db.matches, n \in db'.matches :
        /\ m.job = pair[1].id /\ m.candidate = pair[2].id
        /\ \A o \in db'.matches :
               (o.job = pair[1].id /\ o.candidate = pair[2].id) => o = n
        /\ n.id = m.id /\ n.job = m.job /\ n.candidate = m.candidate
        /\ Scores(n, pair[1], pair[2])

\* The step answers 400 and leaves the stored records as they are.
Rejects == ret'.status = 400 /\ db' = db

\* C23 (amended): through any sequence of match_candidates, match_all_jobs, bulk_create
\* and Match create requests there is at most one Match per (job, candidate) pair:
\* match_candidates, match_all_jobs and bulk_create update the Match of a pair that has
\* one, and the creation of a Match for such a pair is rejected, the Match staying as
\* it is.
C23_OneMatchPerPair ==
    UniquePairs /\
    [][/\ UniquePairs'
       /\ pc = "called" =>
              \A pair \in Rematched :
                  IF op = "create_match" THEN Rejects ELSE Refreshes(pair)]_vars

\* C23 as stated: there is at most one Match per pair, and matching a pair again by any
\* of the four operations updates its Match.
C23_AsClaimed ==
    UniquePairs /\
    [][/\ UniquePairs'
       /\ pc = "called" => \A pair \in Rematched : Refreshes(pair)]_vars

\* match_candidates has updated the Match of a pair and created another.
C23_Witness ==
    /\ Returned("match_candidates")
    /\ ret.status = 200
    /\ ret.data.matches_updated > 0
    /\ ret.data.matches_created > 0
    /\ Cardinality(db.matches) >= 2

\* The stored candidates that have no Match with the job of id pk.
Unmatched(pk) == {candidate \in db.candidates : MatchesOf(pk, candidate.id) = {}}

\* After the step the candidate has one Match with the job, carrying their score and
\* the semantic_score 0.0.
MatchedAfter(job, candidate) ==
    \E m \in db'.matches :
        /\ m.job = job.id /\ m.candidate = candidate.id
        /\ \A n \in db'.matches : (n.job = job.id /\ n.candidate = candidate.id) => n = m
        /\ Scores(m, job, candidate)
        /\ m.semantic_score = 0

\* C24: match_candidates for a stored job J handles every stored candidate exactly
\* once: matches_created + matches_updated = total_candidates, matches_created is the
\* number of candidates without a Match with J before the call, and on return every
\* candidate has a Match with J that carries calculate_skill_match(J.skills_required,
\* candidate.skills_extracted) and the semantic_score 0.0.
C24_EveryCandidateOnce ==
    [][(pc = "called" /\ op = "match_candidates") =>
           \A job \in db.jobs :
               job.id = args.pk =>
                   /\ ret'.status = 200
                   /\ ret'.data.total = Cardinality(db.candidates)
                   /\ ret'.data.matches_created + ret'.data.matches_updated
                          = ret'.data.total
                   /\ ret'.data.matches_created = Cardinality(Unmatched(job.id))
                   /\ Len(ret'.data.results) = Cardinality(db.candidates)
                   /\ {ret'.data.results[n].candidate_id : n \in DOMAIN ret'.data.results}
                          = {candidate.id : candidate \in db.candidates}
                   /\ \A candidate \in db.candidates : MatchedAfter(job, candidate)]_vars

\* match_candidates has returned after updating a Match that bore another
\* semantic_score and creating the matches of two more candidates.
C24_Witness ==
    /\ Returned("match_candidates")
    /\ ret.status = 200
    /\ ret.data.matches_updated = 1
    /\ ret.data.matches_created >= 2
    /\ \A m \in db.matches : m.semantic_score = 0

(***************************************************************************)
(* check_score and the stored records.                                     *)
(***************************************************************************)
\* C25: check_score leaves the stored records as they are on every path: it creates,
\* updates and deletes no job, candidate or match.
C25_StoreUnchanged == [][op = "check_score" => db' = db]_vars

\* check_score has answered with a score while jobs, candidates and a match
\* are stored.
C25_Witness ==
    /\ Returned("check_score")
    /\ ret.status = 200
    /\ db.jobs # {} /\ db.candidates # {} /\ db.matches # {}

(***************************************************************************)
(* The references of the stored matches.                                   *)
(***************************************************************************)
\* C26: in every reachable state each Match references a stored job and a stored
\* candidate: the deletion of a job or a candidate takes its matches along, and no
\* operation creates a Match for a job or a candidate that is not stored.
C26_NoDanglingMatch ==
    \A m \in db.matches :
        /\ \E job \in db.jobs : job.id = m.job
        /\ \E candidate \in db.candidates : candidate.id = m.candidate

\* A job has been deleted, and matches with it: a Match that is left bears an id
\* greater than the number of matches left.
C26_Witness ==
    /\ Returned("destroy_job")
    /\ ret.status = 204
    /\ \E m \in db.matches : m.id > Cardinality(db.matches)

(***************************************************************************)
(* The two forms of the scorer on the same lists.                          *)
(***************************************************************************)
\* The breakdown of the detailed form for the lists of the call, both percentages
\* rounded with the tie direction up.
DetailedOfCall(up) ==
    calculate_skill_match_detailed(args.job_skills, args.candidate_skills, up, up)

\* The percentage of the simple form for the lists of the call when a rounding tie
\* falls in the direction up.  Without a near miss the two forms do the same
\* floating-point operations, so a tie falls the same way in both.
SimpleOfCall(up) ==
    calculate_skill_match(args.job_skills, args.candidate_skills, up)[1]

\* The greatest ratio of a canonical form to a possessed canonical form.
BestRatio(c) ==
    LET ratios == {SequenceMatcherRatio(c, k) : k \in Possessed}
    IN  IF ratios = {} THEN Zero ELSE CHOOSE r \in ratios : \A q \in ratios : RLe(q, r)

\* A required canonical form that is not possessed has its best ratio in [0.80, 0.85).
NearMiss(c) ==
    /\ c \notin Possessed
    /\ RLe(<<80, 100>>, BestRatio(c))
    /\ RLt(BestRatio(c), <<85, 100>>)

\* C27: for the same lists, every required skill that the simple form flags matched
\* is in matched_skills of the detailed form with the ratio the simple form credits
\* as its similarity; with a rounding tie falling the same way in both forms, the
\* weighted percentage of the detailed form is at least the percentage of the
\* simple form, and equal to it when no required skill has its best fuzzy ratio in
\* [0.80, 0.85).
C27_DetailedCoversSimple ==
    Returned("calculate_skill_match") =>
        \A up \in BOOLEAN :
            /\ \A n \in DOMAIN ret[2] :
                   ret[2][n][2] =>
                       /\ \E m \in DOMAIN DetailedOfCall(up).matched_skills :
                              DetailedOfCall(up).matched_skills[m] = ret[2][n][1]
                       /\ DetailedOfCall(up).skill_details[ret[2][n][1]].similarity
                              = CreditedRatio(CanonicalForm(ret[2][n][1]))
            /\ SimpleOfCall(up) = ret[1] =>
                   /\ DetailedOfCall(up).weighted_percentage >= ret[1]
                   /\ (\A c \in Required : ~NearMiss(c))
                          => DetailedOfCall(up).weighted_percentage = ret[1]

\* The simple form has returned for two required skills: one has a fuzzy match at
\* or above 0.85, the other a best ratio in [0.80, 0.85), so that the detailed form
\* gives the greater percentage.
C27_Witness ==
    /\ Returned("calculate_skill_match")
    /\ \E c \in Required : NearMiss(c)
    /\ \E c \in Required : c \notin Possessed /\ RLe(<<85, 100>>, BestRatio(c))
    /\ DetailedOfCall(TRUE).weighted_percentage > ret[1]
    /\ ret[1] > 0

(***************************************************************************)
(* The percentage as a function of the canonical forms.                    *)
(***************************************************************************)
RECURSIVE Enumerated(_)
\* The elements of a set in a sequence without repetition, in a fixed order.
Enumerated(S) ==
    IF S = {} THEN <<>>
    ELSE LET x == CHOOSE x \in S : TRUE
         IN  <<x>> \o Enumerated(S \ {x})

\* The directions in which a rounding tie can fall in a call with the given
\* required list: the one of the returned percentage when the call adds the same
\* weights in the same order as the call made, either one otherwise.
TieDirections(job_skills) ==
    IF Keys(normalized_items(job_skills)) = Keys(normalized_items(args.job_skills))
    THEN {up \in BOOLEAN :
             ret[1] = calculate_skill_match(args.job_skills, args.candidate_skills, up)[1]}
    ELSE BOOLEAN

\* C28: the percentage of calculate_skill_match is a function of the sets of
\* canonical forms of its two lists: it is the percentage of the call with each
\* list replaced by its canonical forms, without repetition and in a fixed order.
C28_AsClaimed ==
    Returned("calculate_skill_match") =>
        \A up \in TieDirections(Enumerated(Required)) :
            ret[1] = calculate_skill_match(Enumerated(Required), Enumerated(Possessed), up)[1]

(***************************************************************************)
(* The counts of the breakdown.                                            *)
(***************************************************************************)
\* C29: in the breakdown of a non-empty required list matched_skills and
\* missing_skills are disjoint, total_matched + len(missing_skills) is
\* total_required, and match_percentage is 100.0 exactly when missing_skills is
\* empty.
C29_AsClaimed ==
    (Detailed /\ args.job_skills # <<>>) =>
        /\ Range(ret.matched_skills) \cap Range(ret.missing_skills) = {}
        /\ ret.total_matched + Len(ret.missing_skills) = ret.total_required
        /\ ret.match_percentage = 10000 <=> ret.missing_skills = <<>>

(***************************************************************************)
(* The fuzzy matches of the scorers.                                       *)
(***************************************************************************)
\* What the called form gets from the fuzzy matcher for a required canonical form:
\* the query is the canonical form, the candidates are the possessed keys.
FuzzyOfCall(c) ==
    fuzzy_match_skill(c, Keys(normalized_items(args.candidate_skills)), ScorerThreshold)

\* The similarity lies in [threshold, 1.0) of the called form.
BelowFullCredit(similarity) ==
    RLe(ScorerThreshold, similarity) /\ RLt(similarity, One)

\* C30: the scorers hand the fuzzy matcher a canonical query that is not among the
\* possessed keys, so what it finds has a similarity of at least the threshold of
\* the form (0.85 simple, 0.80 detailed) and strictly below 1.0; every match the
\* detailed form reports as fuzzy carries such a similarity, and a call with a
\* fuzzy match returns a weighted percentage below 100.0.
C30_FuzzyBelowOne ==
    ReturnedScore =>
        /\ \A c \in Required \ Possessed :
               /\ normalize_skill(c) = c
               /\ Truthy(FuzzyOfCall(c)[1]) =>
                      /\ BelowFullCredit(FuzzyOfCall(c)[2])
                      /\ WeightedPercentage < 10000
        /\ (Detailed /\ args.job_skills # <<>>) =>
               /\ \A n \in DOMAIN ret.fuzzy_matches :
                      /\ CanonicalForm(ret.fuzzy_matches[n].required) \notin Possessed
                      /\ BelowFullCredit(ret.fuzzy_matches[n].similarity)
               /\ \A skill \in DOMAIN ret.skill_details :
                      ret.skill_details[skill].match_type = Some("fuzzy") =>
                          BelowFullCredit(ret.skill_details[skill].similarity)
        /\ Returned("calculate_skill_match") =>
               \A n \in DOMAIN ret[2] :
                   (ret[2][n][2] /\ CanonicalForm(ret[2][n][1]) \notin Possessed) =>
                       BelowFullCredit(FuzzyOfCall(CanonicalForm(ret[2][n][1]))[2])

\* The detailed form reports two fuzzy matches, one with the similarity of its
\* threshold and one above 0.85.
C30_Witness ==
    /\ Detailed
    /\ Len(ret.fuzzy_matches) = 2
    /\ \E n \in DOMAIN ret.fuzzy_matches : ret.fuzzy_matches[n].similarity = <<4, 5>>
    /\ \E n \in DOMAIN ret.fuzzy_matches : RLt(<<85, 100>>, ret.fuzzy_matches[n].similarity)
    /\ ret.weighted_percentage > 8000

====
